---- MODULE Spec2Model ----
(***************************************************************************)
(* The dual-stream recorder of src/src/hooks/useRecorder.ts (useRecorder) *)
(* as a state machine.  React state and refs of the hook are variables of  *)
(* the same names; every `await` on the audio device or the network is a   *)
(* point where timer callbacks and other calls may interleave, so every    *)
(* async function is cut into one action per awaited completion.           *)
(*                                                                         *)
(* Text is a sequence of naturals: SP (0) is a blank, any other number is  *)
(* a non-blank character.  A chunk file is named by the clock value read   *)
(* when it was saved, and the words a provider returns for chunk c are     *)
(* written with the character c, so a transcript shows which chunks it     *)
(* holds and in which order.                                               *)
(***************************************************************************)
EXTENDS Integers, Sequences, FiniteSets, TLC

\* ---------------------------------------------------------------- bounds
\* calls of startRecording/pauseRecording/resumeRecording/stopRecording
MaxCalls == 3
\* firings of the 1 s elapsed-time interval
MaxTicks == 1
\* firings of the 5 s interval that get past rotateChunk's guard
MaxRotations == 2
\* device, permission and network failures the environment injects
MaxFaults == 1

\* ------------------------------------------------------------- constants
NULL == 0
SP == 0
\* the empty string, as a uri
NoUri == <<>>

VARIABLES
  \* useState
  isRecording, isPaused, duration, finalUri, liveTranscription,
  \* useRef
  timerRef, chunkTimerRef, durationRef, recorderRef, fullRecorderRef,
  chunkFilesRef, transcriptionRef, isStoppingRef,
  \* the device, the file system, the clock and the event loop
  recorders, chunksDir, recordingsDir, now, intervals,
  \* calls and callbacks in flight
  startCall, stops, rots, pending,
  \* history
  calls, faults, rotations, sess, transcribed,
  \* the stored settings (services/settings.ts)
  settings,
  \* the last call of a service function: its arguments, the backend it reached
  \* and what it returned or threw
  call,
  \* a row of the recordings table, and the files on the device
  row, disk,
  \* handleDiarize of the detail screen and handleDelete of the list, in flight
  diar, del

state == <<isRecording, isPaused, duration, finalUri, liveTranscription>>
timerRefs == <<timerRef, chunkTimerRef, intervals>>
streamRefs == <<recorderRef, fullRecorderRef, recorders>>
files == <<chunkFilesRef, chunksDir, recordingsDir, now>>
inflight == <<startCall, stops, rots, pending>>
history == <<calls, faults, rotations, sess, transcribed>>

\* the hook and its environment
recorder == <<isRecording, isPaused, duration, finalUri, liveTranscription,
              timerRef, chunkTimerRef, durationRef, recorderRef, fullRecorderRef,
              chunkFilesRef, transcriptionRef, isStoppingRef,
              recorders, chunksDir, recordingsDir, now, intervals,
              startCall, stops, rots, pending,
              calls, faults, rotations, sess, transcribed>>
\* the rest of the application
library == <<row, disk, diar, del>>
app == <<settings, call, library>>

vars == <<recorder, app>>

\* ------------------------------------------------------------ text
RECURSIVE TrimStart(_)
TrimStart(s) ==
  IF s # <<>> /\ Head(s) = SP THEN TrimStart(Tail(s)) ELSE s

RECURSIVE TrimEnd(_)
TrimEnd(s) ==
  IF s # <<>> /\ s[Len(s)] = SP THEN TrimEnd(SubSeq(s, 1, Len(s) - 1)) ELSE s

\* String.prototype.trim
Trim(s) == TrimEnd(TrimStart(s))

\* String(n): the decimal digits of n
RECURSIVE Digits(_)
Digits(n) == IF n < 10 THEN <<n>> ELSE Digits(n \div 10) \o <<n % 10>>

\* the number a sequence of decimal digits reads
RECURSIVE DigitsValue(_)
DigitsValue(d) ==
  IF d = <<>> THEN 0 ELSE 10 * DigitsValue(SubSeq(d, 1, Len(d) - 1)) + d[Len(d)]

\* s.padStart(len, fill)
RECURSIVE PadStart(_, _, _)
PadStart(s, len, fill) == IF Len(s) >= len THEN s ELSE PadStart(<<fill>> \o s, len, fill)

\* what a provider may answer for chunk c
RawTexts(c) == { <<>>, <<SP>>, <<c>>, <<SP, c, SP>> }

AppendTextUntrimmed(acc, text) ==
  IF text # <<>> THEN acc \o (IF acc # <<>> THEN <<SP>> ELSE <<>>) \o text ELSE acc

\* transcribeChunk's append: transcriptionRef.current += (… ? ' ' : '') + text.trim()
AppendText(acc, text) ==
  IF text # <<>> /\ Trim(text) # <<>>
  THEN acc \o (IF acc # <<>> THEN <<SP>> ELSE <<>>) \o Trim(text)
  ELSE acc

\* ------------------------------------------------------------ streams
\* createRecorder + record(): a new stream of the role, capturing to its own file
NewRecorder(role) == [role |-> role, st |-> "recording", file |-> TRUE]

Open(role) == { r \in 1..Len(recorders) :
                  recorders[r].role = role /\ recorders[r].st # "stopped" }

\* recorder.pause() / recorder.record() / recorder.stop() on a handle (NULL: no call)
PauseRec(rs, r) ==
  IF r # NULL /\ rs[r].st = "recording" THEN [rs EXCEPT ![r].st = "paused"] ELSE rs

RecordRec(rs, r) ==
  IF r # NULL /\ rs[r].st = "paused" THEN [rs EXCEPT ![r].st = "recording"] ELSE rs

StopRec(rs, r) == [rs EXCEPT ![r].st = "stopped"]

\* ------------------------------------------------------------ timers
\* intervals = the intervals armed in the event loop: elapsed-time ones, and
\* rotation ones by the isPaused value their rotateChunk closure captured
\* (live: false, stale: true).  timerRef/chunkTimerRef say which one the refs hold.
ChunkKind(paused) == IF paused THEN "stale" ELSE "live"

\* startTimer: timerRef.current = setInterval(...)
StartTimerIv(iv) == [iv EXCEPT !.timer = @ + 1]

\* stopTimer: clearInterval(timerRef.current) when it is set
StopTimerIv(iv, ref) == IF ref # NULL THEN [iv EXCEPT !.timer = @ - 1] ELSE iv

\* chunkTimerRef.current = setInterval(() => rotateChunk(), CHUNK_DURATION_MS)
StartChunkTimerIv(iv, paused) == [iv EXCEPT ![ChunkKind(paused)] = @ + 1]

\* stopChunkTimer
StopChunkTimerIv(iv, ref) == IF ref # "null" THEN [iv EXCEPT ![ref] = @ - 1] ELSE iv

\* ------------------------------------------------------------ files
PushChunkFirst(list, uri) == <<uri>> \o list

\* saveCurrentChunk: chunkFilesRef.current.push(chunkFile.uri)
PushChunk(list, uri) == Append(list, uri)

\* ------------------------------------------------------------ phases
StopInFlight == \E i \in 1..Len(stops) : stops[i].pc \in {"fullStop", "chunkStop", "transcribe"}
RotInFlight == rots # <<>>

\* the state of the session machine the hook's flags encode
Phase ==
  IF StopInFlight THEN "stopping"
  ELSE IF ~isRecording THEN "idle"
  ELSE IF isPaused THEN "paused" ELSE "recording"

\* ================================================================ JSON
\* A JavaScript string is a sequence of tokens [k, c, v, n]: k = "x" is a word or
\* character c that is no white space, "w" white space; inside a JSON text there
\* are also punctuation c ("p"), one of the words true/false/null c ("l"), a number
\* n ("n") and a quoted string whose content is the string v ("s").
Tok(k, c) == [k |-> k, c |-> c, v |-> <<>>, n |-> 0]
StrTok(x) == [k |-> "s", c |-> "", v |-> x, n |-> 0]
NumTok(n) == [k |-> "n", c |-> "", v |-> <<>>, n |-> n]
WS == Tok("w", " ")
Word(w) == Tok("x", w)
\* the one-word string w, and '' which is the only falsy string
Str(w) == <<Word(w)>>
Empty == <<>>

\* a JavaScript value: t is its type, s the content of a string, n the value of a
\* number, keys and items the keys and values of an object, items the elements
\* of an array
JVal(t, str, n, keys, items) ==
  [t |-> t, s |-> str, n |-> n, keys |-> keys, items |-> items]
JNull == JVal("null", Empty, 0, <<>>, <<>>)
JBool(b) == JVal(IF b THEN "true" ELSE "false", Empty, 0, <<>>, <<>>)
JStr(x) == JVal("str", x, 0, <<>>, <<>>)
JNum(n) == JVal("num", Empty, n, <<>>, <<>>)
JArr(items) == JVal("arr", Empty, 0, <<>>, items)
JObj(keys, items) == JVal("obj", Empty, 0, keys, items)

\* obj[key]: the value of the last member named key, undefined (JNull here, both
\* are falsy and neither is an array) when there is none or obj is no object
HasKey(obj, key) == obj.t = "obj" /\ \E i \in 1..Len(obj.keys) : obj.keys[i] = key
Get(obj, key) ==
  IF HasKey(obj, key)
  THEN obj.items[CHOOSE i \in 1..Len(obj.keys) :
                   obj.keys[i] = key /\ \A j \in (i + 1)..Len(obj.keys) : obj.keys[j] # key]
  ELSE JNull

\* a value used as a condition
Truthy(v) ==
  CASE v.t \in {"null", "false"} -> FALSE
    [] v.t = "str" -> v.s # Empty
    [] v.t = "num" -> v.n # 0
    [] OTHER -> TRUE

\* the name an object key token stands for (keys are one-word strings)
KeyOf(tok) == IF Len(tok.v) = 1 /\ tok.v[1].k = "x" THEN tok.v[1].c ELSE ""

\* JSON.stringify
RECURSIVE Stringify(_)
RECURSIVE StringifyItems(_)
RECURSIVE StringifyMembers(_, _)
StringifyItems(items) ==
  IF items = <<>> THEN <<>>
  ELSE Stringify(Head(items))
         \o (IF Len(items) > 1 THEN <<Tok("p", ",")>> ELSE <<>>)
         \o StringifyItems(Tail(items))
StringifyMembers(keys, items) ==
  IF keys = <<>> THEN <<>>
  ELSE <<StrTok(Str(Head(keys))), Tok("p", ":")>> \o Stringify(Head(items))
         \o (IF Len(keys) > 1 THEN <<Tok("p", ",")>> ELSE <<>>)
         \o StringifyMembers(Tail(keys), Tail(items))
Stringify(v) ==
  CASE v.t \in {"null", "true", "false"} -> <<Tok("l", v.t)>>
    [] v.t = "str" -> <<StrTok(v.s)>>
    [] v.t = "num" -> <<NumTok(v.n)>>
    [] v.t = "arr" -> <<Tok("p", "[")>> \o StringifyItems(v.items) \o <<Tok("p", "]")>>
    [] v.t = "obj" -> <<Tok("p", "{")>> \o StringifyMembers(v.keys, v.items)
                        \o <<Tok("p", "}")>>

\* JSON.parse: [ok, val]; ok = FALSE is the SyntaxError it throws.  White space
\* between tokens is skipped; anything left after the value is an error.
NoParse == [ok |-> FALSE, val |-> JNull, rest |-> <<>>]
Parsed(v, rest) == [ok |-> TRUE, val |-> v, rest |-> rest]

RECURSIVE NoWs(_)
NoWs(ts) ==
  IF ts = <<>> THEN <<>>
  ELSE IF Head(ts).k = "w" THEN NoWs(Tail(ts)) ELSE <<Head(ts)>> \o NoWs(Tail(ts))

RECURSIVE ParseValue(_)
RECURSIVE ParseItems(_, _)
RECURSIVE ParseMembers(_, _, _)
ParseItems(ts, acc) ==
  LET r == ParseValue(ts)
  IN  IF ~r.ok \/ r.rest = <<>> THEN NoParse
      ELSE IF Head(r.rest) = Tok("p", ",")
      THEN ParseItems(Tail(r.rest), Append(acc, r.val))
      ELSE IF Head(r.rest) = Tok("p", "]")
      THEN Parsed(JArr(Append(acc, r.val)), Tail(r.rest))
      ELSE NoParse
ParseMembers(ts, keys, items) ==
  IF Len(ts) < 3 \/ ts[1].k # "s" \/ ts[2] # Tok("p", ":") THEN NoParse
  ELSE LET r == ParseValue(SubSeq(ts, 3, Len(ts)))
       IN  IF ~r.ok \/ r.rest = <<>> THEN NoParse
           ELSE IF Head(r.rest) = Tok("p", ",")
           THEN ParseMembers(Tail(r.rest), Append(keys, KeyOf(ts[1])), Append(items, r.val))
           ELSE IF Head(r.rest) = Tok("p", "}")
           THEN Parsed(JObj(Append(keys, KeyOf(ts[1])), Append(items, r.val)), Tail(r.rest))
           ELSE NoParse
ParseValue(ts) ==
  IF ts = <<>> THEN NoParse
  ELSE LET h == Head(ts)
           t == Tail(ts)
       IN  CASE h.k = "l" /\ h.c = "null" -> Parsed(JNull, t)
             [] h.k = "l" /\ h.c = "true" -> Parsed(JBool(TRUE), t)
             [] h.k = "l" /\ h.c = "false" -> Parsed(JBool(FALSE), t)
             [] h.k = "s" -> Parsed(JStr(h.v), t)
             [] h.k = "n" -> Parsed(JNum(h.n), t)
             [] h = Tok("p", "[") ->
                  IF t # <<>> /\ Head(t) = Tok("p", "]") THEN Parsed(JArr(<<>>), Tail(t))
                  ELSE ParseItems(t, <<>>)
             [] h = Tok("p", "{") ->
                  IF t # <<>> /\ Head(t) = Tok("p", "}") THEN Parsed(JObj(<<>>, <<>>), Tail(t))
                  ELSE ParseMembers(t, <<>>, <<>>)
             [] OTHER -> NoParse

JSONParse(ts) ==
  LET r == ParseValue(NoWs(ts))
  IN  IF r.ok /\ r.rest = <<>> THEN [ok |-> TRUE, val |-> r.val]
      ELSE [ok |-> FALSE, val |-> JNull]

\* String.prototype.trim on a token string
RECURSIVE TrimToksStart(_)
TrimToksStart(ts) ==
  IF ts # <<>> /\ Head(ts).k = "w" THEN TrimToksStart(Tail(ts)) ELSE ts
RECURSIVE TrimToksEnd(_)
TrimToksEnd(ts) ==
  IF ts # <<>> /\ ts[Len(ts)].k = "w" THEN TrimToksEnd(SubSeq(ts, 1, Len(ts) - 1)) ELSE ts
TrimToks(ts) == TrimToksEnd(TrimToksStart(ts))

\* ================================================================ services
\* AIProvider, and a value that is none of them
Providers == {"openai", "gemini", "groq"}
AnyProvider == Providers \cup {"other"}

\* how a request to a backend ends: it throws (file not found, HTTP status not ok,
\* the SDK rejects) or delivers a body
BackendThrows == [kind |-> "throw", body |-> Empty]
Body(b) == [kind |-> "body", body |-> b]

\* what an adapter operation gives its caller: a value, or an error thrown
Threw(e) == [ok |-> FALSE, err |-> e, segments |-> <<>>, plainText |-> Empty]
Returned(segs, text) == [ok |-> TRUE, err |-> "none", segments |-> segs, plainText |-> text]

\* TimestampedSegment
TSeg(start, end, text) == [start |-> start, end |-> end, text |-> text]

\* Array.prototype.join(' ') on strings
RECURSIVE JoinStrings(_)
JoinStrings(q) ==
  IF q = <<>> THEN Empty
  ELSE IF Len(q) = 1 THEN q[1]
  ELSE q[1] \o <<WS>> \o JoinStrings(Tail(q))

\* seg.start: the numbers the backends deliver are numbers of seconds
NumOf(v) == IF v.t = "num" THEN v.n ELSE 0
\* seg.text?.trim() || ''  and  (seg.text || '').trim()
SegText(seg) == IF Get(seg, "text").t = "str" THEN TrimToks(Get(seg, "text").s) ELSE Empty
\* data.text || ...
TextOr(data, other) == IF Truthy(Get(data, "text")) THEN Get(data, "text").s ELSE other

\* (data.segments || []).map(seg => ({start, end, text})): a TypeError when data is
\* null or data.segments is truthy and no array
VerboseSegments(data) ==
  LET sg == Get(data, "segments")
  IN  IF data.t = "null" THEN [ok |-> FALSE, segs |-> <<>>]
      ELSE IF ~Truthy(sg) THEN [ok |-> TRUE, segs |-> <<>>]
      ELSE IF sg.t # "arr" THEN [ok |-> FALSE, segs |-> <<>>]
      ELSE [ok |-> TRUE,
            segs |-> [i \in 1..Len(sg.items) |->
                        TSeg(NumOf(Get(sg.items[i], "start")),
                             NumOf(Get(sg.items[i], "end")), SegText(sg.items[i]))]]

\* "Fallback: no timestamps available"
FallbackResult(text) == Returned(<<TSeg(0, 0, TrimToks(text))>>, TrimToks(text))

UseVerboseAlways(model) == TRUE

\* const useVerbose = model === 'whisper-1'
UseVerbose(model) == model = "whisper-1"

FromVerboseJson(body) ==
  LET p == JSONParse(body)
      m == VerboseSegments(p.val)
  IN  IF ~p.ok \/ ~m.ok THEN Threw("backend")
      ELSE Returned(m.segs, TextOr(p.val, Empty))

transcribeWithOpenAITimestamped(model, raw) ==
  IF raw.kind = "throw" THEN Threw("backend")
  ELSE IF UseVerbose(model) THEN FromVerboseJson(raw.body)
  ELSE FallbackResult(raw.body)

transcribeWithGroqTimestamped(model, raw) ==
  IF raw.kind = "throw" THEN Threw("backend") ELSE FromVerboseJson(raw.body)

transcribeWithGeminiTimestamped(model, raw) ==
  IF raw.kind = "throw" THEN Threw("backend")
  ELSE LET p == JSONParse(raw.body)
           m == VerboseSegments(p.val)
       IN  IF ~p.ok \/ ~m.ok THEN FallbackResult(raw.body)
           ELSE Returned(m.segs,
                         TextOr(p.val, JoinStrings([i \in 1..Len(m.segs) |-> m.segs[i].text])))

\* ------------------------------------------------------------ text backends
\* transcribeWith<Provider>: the body of the response is the text
transcribeWith(lib, raw) ==
  IF raw.kind = "throw" THEN Threw("backend") ELSE Returned(<<>>, raw.body)

DossierError == <<Word("Erro"), WS, Word("ao"), WS, Word("gerar"), WS, Word("dossie.")>>

\* generateDossierWith<Provider>: OpenAI and Groq return
\* choices[0]?.message?.content || 'Erro ao gerar dossiê.', Gemini the text as it is
generateDossierWith(lib, raw) ==
  IF raw.kind = "throw" THEN Threw("backend")
  ELSE IF lib \in {"openai", "groq"} /\ raw.body = Empty THEN Returned(<<>>, DossierError)
  ELSE Returned(<<>>, raw.body)

\* ------------------------------------------------------------ the adapter
Operations ==
  {"transcribeAudio", "transcribeAudioWithTimestamps", "generateDossier",
   "generateTitle", "diarizeTranscription"}

NoBackend == [lib |-> "none", fn |-> "none"]

\* the function of a backend module an operation is written against
BackendFn(op) ==
  CASE op = "transcribeAudio" -> "transcribe"
    [] op = "transcribeAudioWithTimestamps" -> "transcribeTimestamped"
    [] OTHER -> "generateDossier"

DispatchDefaultsToOpenAI(op, provider) ==
  IF provider \in {"gemini", "groq"} THEN [lib |-> provider, fn |-> BackendFn(op)]
  ELSE [lib |-> "openai", fn |-> BackendFn(op)]

\* switch (provider) { case 'openai': ... case 'gemini': ... case 'groq': ...
\* default: throw new Error(`Provedor não suportado: ...`) }
Dispatch(op, provider) ==
  CASE provider = "openai" -> [lib |-> "openai", fn |-> BackendFn(op)]
    [] provider = "gemini" -> [lib |-> "gemini", fn |-> BackendFn(op)]
    [] provider = "groq" -> [lib |-> "groq", fn |-> BackendFn(op)]
    [] OTHER -> NoBackend

transcribeAudio(provider, model, raw) ==
  LET d == Dispatch("transcribeAudio", provider)
  IN  IF d = NoBackend THEN Threw("unsupported") ELSE transcribeWith(d.lib, raw)

transcribeAudioWithTimestamps(provider, model, raw) ==
  LET d == Dispatch("transcribeAudioWithTimestamps", provider)
  IN  CASE d.lib = "openai" -> transcribeWithOpenAITimestamped(model, raw)
        [] d.lib = "gemini" -> transcribeWithGeminiTimestamped(model, raw)
        [] d.lib = "groq" -> transcribeWithGroqTimestamped(model, raw)
        [] OTHER -> Threw("unsupported")

generateDossier(provider, model, raw) ==
  LET d == Dispatch("generateDossier", provider)
  IN  IF d = NoBackend THEN Threw("unsupported") ELSE generateDossierWith(d.lib, raw)

generateTitle(provider, model, raw) ==
  LET d == Dispatch("generateTitle", provider)
      r == generateDossierWith(d.lib, raw)
  IN  IF d = NoBackend THEN Threw("unsupported")
      ELSE IF ~r.ok THEN r ELSE Returned(<<>>, TrimToks(r.plainText))

\* ------------------------------------------------------------ diarizeTranscription
\* three backticks
Fence == Word("fence")

\* response.replace(/```json\s*/g, ''): matches are found left to right in the
\* input, what a removal brings together is not matched again
RECURSIVE RemoveJsonFences(_)
RemoveJsonFences(ts) ==
  IF ts = <<>> THEN <<>>
  ELSE IF Len(ts) >= 2 /\ ts[1] = Fence /\ ts[2] = Word("json")
  THEN RemoveJsonFences(TrimToksStart(SubSeq(ts, 3, Len(ts))))
  ELSE <<Head(ts)>> \o RemoveJsonFences(Tail(ts))

\* .replace(/```\s*/g, '')
RECURSIVE RemoveFences(_)
RemoveFences(ts) ==
  IF ts = <<>> THEN <<>>
  ELSE IF ts[1] = Fence THEN RemoveFences(TrimToksStart(Tail(ts)))
  ELSE <<Head(ts)>> \o RemoveFences(Tail(ts))

\* a response inside a json code fence: the fence, the word json, a line break,
\* the response, a line break, the fence
Fenced(response) == <<Fence, Word("json"), WS>> \o response \o <<WS, Fence>>

CleanedKeepsFences(response) == TrimToks(RemoveJsonFences(response))

\* const cleaned = response.replace(...).replace(...).trim()
Cleaned(response) == TrimToks(RemoveFences(RemoveJsonFences(response)))

\* x || fallback
Or(v, fallback) == IF Truthy(v) THEN v ELSE JStr(fallback)

\* DiarizedSegment from one element of the parsed array
DSeg(seg) ==
  [speaker |-> Or(Get(seg, "speaker"), Str("Desconhecido")),
   start |-> Or(Get(seg, "start"), Str("00:00")),
   end |-> Or(Get(seg, "end"), Str("00:00")),
   text |-> Or(Get(seg, "text"), Empty)]

DiarizeParseLenient(response) ==
  LET p == JSONParse(Cleaned(response))
  IN  IF p.ok /\ p.val.t = "arr" /\ \A i \in 1..Len(p.val.items) : p.val.items[i].t # "null"
      THEN Returned([i \in 1..Len(p.val.items) |-> DSeg(p.val.items[i])], Empty)
      ELSE Returned(<<>>, Empty)

\* lines 116-129: any exception between JSON.parse and the end of map is caught
\* and rethrown as the parse error (null has no properties; a truthy segments that
\* is no array has no map)
DiarizeParse(response) ==
  LET p == JSONParse(Cleaned(response))
      arr == IF p.val.t = "arr" THEN p.val
             ELSE IF Truthy(Get(p.val, "segments")) THEN Get(p.val, "segments")
             ELSE JArr(<<>>)
  IN  IF ~p.ok \/ p.val.t = "null" \/ arr.t # "arr"
         \/ \E i \in 1..Len(arr.items) : arr.items[i].t = "null"
      THEN Threw("parse")
      ELSE Returned([i \in 1..Len(arr.items) |-> DSeg(arr.items[i])], Empty)

diarizeTranscription(provider, model, raw) ==
  LET d == Dispatch("diarizeTranscription", provider)
      r == generateDossierWith(d.lib, raw)
  IN  IF d = NoBackend THEN Threw("unsupported")
      ELSE IF ~r.ok THEN r ELSE DiarizeParse(r.plainText)

\* ------------------------------------------------------------ prompts
\* the two fixed instruction texts
DIARIZATION_PROMPT == Str("DIARIZATION_PROMPT")
DOSSIER_PROMPT == Str("DOSSIER_PROMPT")

NL == Tok("w", "\n")

DigitToks(d) == [k \in 1..Len(d) |-> NumTok(d[k])]

\* formatTimestamp(seconds): MM:SS
formatTimestamp(seconds) ==
  DigitToks(PadStart(Digits(seconds \div 60), 2, 0)) \o <<Tok("p", ":")>>
    \o DigitToks(PadStart(Digits(seconds % 60), 2, 0))

\* `[${formatTimestamp(s.start)} - ${formatTimestamp(s.end)}] "${s.text}"`
FormatSegment(s) ==
  <<Tok("p", "[")>> \o formatTimestamp(s.start) \o <<WS, Word("-"), WS>>
    \o formatTimestamp(s.end) \o <<Tok("p", "]"), WS, Tok("p", "quote")>>
    \o s.text \o <<Tok("p", "quote")>>

\* Array.prototype.join('\n') on strings
RECURSIVE JoinLines(_)
JoinLines(q) ==
  IF q = <<>> THEN Empty
  ELSE IF Len(q) = 1 THEN q[1]
  ELSE q[1] \o <<NL>> \o JoinLines(Tail(q))

\* s => s.text.trim()
Spoken(s) == TrimToks(s.text) # Empty

\* segments.filter(...).map(...).join('\n')
formattedSegments(segments) ==
  LET kept == SelectSeq(segments, Spoken)
  IN  JoinLines([k \in 1..Len(kept) |-> FormatSegment(kept[k])])

\* const prompt = DIARIZATION_PROMPT + formattedSegments
DiarizationPrompt(segments) == DIARIZATION_PROMPT \o formattedSegments(segments)

\* generateDossierWith<Provider>: the content of the one user message
Content(transcription) == DOSSIER_PROMPT \o transcription

\* what diarizeTranscription has a backend send, if it reaches one
DiarizeSends(provider, segments) ==
  IF Dispatch("diarizeTranscription", provider) = NoBackend THEN Empty
  ELSE Content(DiarizationPrompt(segments))

\* ------------------------------------------------------------ constants/ai.ts
\* isDiarizedTranscription(value): value is null (isNull) or the string str; the
\* result is the parsed value or null (JNull)
isDiarizedUntagged(isNull, str) ==
  LET p == JSONParse(str)
  IN  IF isNull \/ str = Empty \/ ~p.ok THEN JNull ELSE p.val

isDiarizedTranscription(isNull, str) ==
  LET p == JSONParse(str)
  IN  IF isNull \/ str = Empty THEN JNull
      ELSE IF ~p.ok THEN JNull
      ELSE IF Truthy(p.val) /\ Get(p.val, "diarized") = JBool(TRUE)
              /\ Get(p.val, "segments").t = "arr"
      THEN p.val
      ELSE JNull

\* ================================================================ the library
\* a nullable text column
NullStr == [isNull |-> TRUE, str |-> Empty]
Some(x) == [isNull |-> FALSE, str |-> x]
\* !column
Falsy(col) == col.isNull \/ col.str = Empty

NoRow ==
  [exists |-> FALSE, file_path |-> Empty, audio_parts |-> NullStr,
   transcription |-> NullStr, dialogue |-> NullStr]

getAudioPartsPrimary(recording) == JArr(<<JStr(recording.file_path)>>)

\* getAudioParts: what JSON.parse gives for a truthy audio_parts that parses, else
\* [recording.file_path]
getAudioParts(recording) ==
  LET p == JSONParse(recording.audio_parts.str)
  IN  IF ~Falsy(recording.audio_parts) /\ p.ok THEN p.val
      ELSE JArr(<<JStr(recording.file_path)>>)

\* parts.length and parts[i] of what getAudioParts gave
PartsOf(v) == IF v.t = "arr" THEN [i \in 1..Len(v.items) |-> v.items[i].s] ELSE <<>>

\* createRecording: JSON.stringify(audioParts) when there are any, else null
PartsJson(audioParts) ==
  IF Len(audioParts) > 0
  THEN Some(Stringify(JArr([i \in 1..Len(audioParts) |-> JStr(audioParts[i])])))
  ELSE NullStr

NoDiar ==
  [pc |-> "idle", recording |-> NoRow, provider |-> "none", model |-> "none",
   parts |-> <<>>, i |-> 0, allSegments |-> <<>>, plainTextParts |-> <<>>,
   timeOffset |-> 0, results |-> <<>>, response |-> Body(Empty), asked |-> FALSE,
   diarized |-> <<>>, error |-> "none", plains |-> <<>>, sent |-> Empty]

NoDel == [pc |-> "idle", recording |-> NoRow, attempted |-> {}, threw |-> FALSE]

NoSess == [paused |-> FALSE, rotBegun |-> 0, rotDone |-> 0, overlap |-> FALSE,
           ticks |-> 0]

\* getSettings with nothing stored: liveTranscriptionRaw !== 'false'
DefaultSettings ==
  [provider |-> "openai", apiKey |-> Empty, transcriptionModel |-> "",
   dossierModel |-> "", liveTranscriptionEnabled |-> TRUE]

NoCall ==
  [op |-> "none", provider |-> "none", model |-> "none", isNull |-> FALSE,
   raw |-> Body(Empty), done |-> FALSE, backend |-> NoBackend,
   out |-> Returned(<<>>, Empty), val |-> JNull]

InitApp ==
  /\ settings = DefaultSettings
  /\ call = NoCall
  /\ row = NoRow /\ disk = {}
  /\ diar = NoDiar /\ del = NoDel

InitRecorder ==
  /\ isRecording = FALSE /\ isPaused = FALSE /\ duration = 0
  /\ finalUri = NoUri /\ liveTranscription = <<>>
  /\ timerRef = NULL /\ chunkTimerRef = "null" /\ durationRef = 0
  /\ recorderRef = NULL /\ fullRecorderRef = NULL
  /\ chunkFilesRef = <<>> /\ transcriptionRef = <<>> /\ isStoppingRef = FALSE
  /\ recorders = <<>> /\ chunksDir = {} /\ recordingsDir = {} /\ now = 1
  /\ intervals = [timer |-> 0, live |-> 0, stale |-> 0]
  /\ startCall = [pc |-> "none", sawPaused |-> FALSE, error |-> "none"]
  /\ stops = <<>> /\ rots = <<>> /\ pending = {}
  /\ calls = 0 /\ faults = 0 /\ rotations = 0 /\ sess = NoSess /\ transcribed = {}

Init == InitRecorder /\ InitApp

\* ------------------------------------------------------------ startRecording
\* the caller invokes startRecording of the latest render; it awaits requestPermissions
StartCall ==
  /\ calls < MaxCalls
  /\ startCall.pc = "none"
  /\ ~StopInFlight
  /\ calls' = calls + 1
  /\ startCall' = [pc |-> "perm", sawPaused |-> isPaused, error |-> "none"]
  /\ UNCHANGED app
  /\ UNCHANGED <<state, timerRefs, durationRef, streamRefs, transcriptionRef,
                 isStoppingRef, files, stops, rots, pending, faults, rotations, sess, transcribed>>

StartDeniedAfterReset ==
  /\ startCall.pc = "perm"
  /\ faults < MaxFaults
  /\ faults' = faults + 1
  /\ startCall' = [startCall EXCEPT !.pc = "none", !.error = "permission"]
  /\ duration' = 0 /\ durationRef' = 0
  /\ liveTranscription' = <<>> /\ transcriptionRef' = <<>>
  /\ chunkFilesRef' = <<>>
  /\ UNCHANGED app
  /\ UNCHANGED <<isRecording, isPaused, finalUri, timerRefs, streamRefs, isStoppingRef,
                 chunksDir, recordingsDir, now, stops, rots, pending, calls,
                 rotations, sess, transcribed>>

\* permission refused: throw before anything is touched
StartDenied ==
  /\ startCall.pc = "perm"
  /\ faults < MaxFaults
  /\ faults' = faults + 1
  /\ startCall' = [startCall EXCEPT !.pc = "none", !.error = "permission"]
  /\ UNCHANGED app
  /\ UNCHANGED <<state, timerRefs, durationRef, streamRefs, transcriptionRef,
                 isStoppingRef, files, stops, rots, pending, calls, rotations, sess, transcribed>>

\* permission granted: reset state, clean old chunks, await createRecorder(FULL)
StartGranted ==
  /\ startCall.pc = "perm"
  /\ duration' = 0 /\ durationRef' = 0
  /\ finalUri' = NoUri
  /\ isPaused' = FALSE
  /\ liveTranscription' = <<>> /\ transcriptionRef' = <<>>
  /\ chunkFilesRef' = <<>>
  /\ isStoppingRef' = FALSE
  /\ chunksDir' = {}
  /\ startCall' = [startCall EXCEPT !.pc = "full"]
  /\ sess' = NoSess
  /\ UNCHANGED app
  /\ UNCHANGED <<isRecording, timerRefs, streamRefs, recordingsDir, now,
                 stops, rots, pending, calls, faults, rotations, transcribed>>

StartFullFatal(ok) ==
  /\ startCall.pc = "full"
  /\ ok \/ faults < MaxFaults
  /\ faults' = IF ok THEN faults ELSE faults + 1
  /\ IF ok
     THEN /\ recorders' = Append(recorders, NewRecorder("full"))
          /\ fullRecorderRef' = Len(recorders) + 1
          /\ startCall' = [startCall EXCEPT !.pc = "chunk"]
     ELSE /\ recorders' = recorders
          /\ fullRecorderRef' = NULL
          /\ startCall' = [startCall EXCEPT !.pc = "none", !.error = "full"]
  /\ UNCHANGED app
  /\ UNCHANGED <<state, timerRefs, durationRef, recorderRef, transcriptionRef,
                 isStoppingRef, files, stops, rots, pending, calls, rotations, sess,
                 transcribed>>

\* createRecorder(FULL_RECORDING_PRESET) settles; a failure is logged, not thrown
StartFull(ok) ==
  /\ startCall.pc = "full"
  /\ ok \/ faults < MaxFaults
  /\ faults' = IF ok THEN faults ELSE faults + 1
  /\ IF ok
     THEN /\ recorders' = Append(recorders, NewRecorder("full"))
          /\ fullRecorderRef' = Len(recorders) + 1
     ELSE /\ recorders' = recorders
          /\ fullRecorderRef' = NULL
  /\ startCall' = [startCall EXCEPT !.pc = "chunk"]
  /\ UNCHANGED app
  /\ UNCHANGED <<state, timerRefs, durationRef, recorderRef, transcriptionRef,
                 isStoppingRef, files, stops, rots, pending, calls, rotations, sess, transcribed>>

\* createRecorder(CHUNK_RECORDING_PRESET) settles; a failure propagates
StartChunk(ok) ==
  /\ startCall.pc = "chunk"
  /\ ok \/ faults < MaxFaults
  /\ faults' = IF ok THEN faults ELSE faults + 1
  /\ IF ok
     THEN /\ recorders' = Append(recorders, NewRecorder("chunk"))
          /\ recorderRef' = Len(recorders) + 1
          /\ isRecording' = TRUE
          /\ timerRef' = 1
          /\ chunkTimerRef' = ChunkKind(startCall.sawPaused)
          /\ intervals' = StartChunkTimerIv(StartTimerIv(intervals), startCall.sawPaused)
          /\ startCall' = [startCall EXCEPT !.pc = "none"]
     ELSE /\ startCall' = [startCall EXCEPT !.pc = "none", !.error = "chunk"]
          /\ UNCHANGED <<recorders, recorderRef, isRecording, timerRef, chunkTimerRef, intervals>>
  /\ UNCHANGED app
  /\ UNCHANGED <<isPaused, duration, finalUri, liveTranscription, durationRef,
                 fullRecorderRef, transcriptionRef, isStoppingRef, files,
                 stops, rots, pending, calls, rotations, sess, transcribed>>

\* ------------------------------------------------------------ tickers
\* the 1 s interval: setDuration(prev => prev + 1), durationRef.current = next
NextDurationSkipping(prev) == prev + 2

\* const next = prev + 1
NextDuration(prev) == prev + 1

Tick ==
  /\ intervals.timer > 0
  /\ durationRef < MaxTicks
  /\ duration' = NextDuration(duration)
  /\ durationRef' = NextDuration(duration)
  /\ sess' = [sess EXCEPT !.ticks = @ + 1]
  /\ UNCHANGED app
  /\ UNCHANGED <<isRecording, isPaused, finalUri, liveTranscription, timerRefs,
                 streamRefs, chunkFilesRef, transcriptionRef, isStoppingRef,
                 chunksDir, recordingsDir, now, inflight, calls, faults, rotations,
                 transcribed>>

\* ------------------------------------------------------------ pause / resume
\* pauseRecording: no await, one step
PauseCall ==
  /\ calls < MaxCalls
  /\ startCall.pc = "none"
  /\ calls' = calls + 1
  /\ sess' = [sess EXCEPT !.paused = TRUE]
  /\ recorders' = PauseRec(PauseRec(recorders, fullRecorderRef), recorderRef)
  /\ isPaused' = TRUE
  /\ timerRef' = NULL
  /\ chunkTimerRef' = "null"
  /\ intervals' = StopChunkTimerIv(StopTimerIv(intervals, timerRef), chunkTimerRef)
  /\ UNCHANGED app
  /\ UNCHANGED <<isRecording, duration, finalUri, liveTranscription, durationRef,
                 recorderRef, fullRecorderRef, transcriptionRef, isStoppingRef,
                 files, inflight, faults, rotations, transcribed>>

\* resumeRecording: no await, one step; the interval it arms calls the rotateChunk
\* of the render resumeRecording came from, which captured that render's isPaused
ResumeCall ==
  /\ calls < MaxCalls
  /\ startCall.pc = "none"
  /\ calls' = calls + 1
  /\ recorders' = RecordRec(RecordRec(recorders, fullRecorderRef), recorderRef)
  /\ isPaused' = FALSE
  /\ timerRef' = 1
  /\ chunkTimerRef' = ChunkKind(isPaused)
  /\ intervals' = StartChunkTimerIv(StartTimerIv(intervals), isPaused)
  /\ UNCHANGED app
  /\ UNCHANGED <<isRecording, duration, finalUri, liveTranscription, durationRef,
                 recorderRef, fullRecorderRef, transcriptionRef, isStoppingRef,
                 files, inflight, faults, rotations, sess, transcribed>>

\* ------------------------------------------------------------ rotateChunk
\* rots holds the rotateChunk calls in flight; one that returned is dropped
Drop(q, i) == SubSeq(q, 1, i - 1) \o SubSeq(q, i + 1, Len(q))

\* a rotation interval fires and rotateChunk returns at its guard
RotateSkip ==
  /\ \/ intervals.stale > 0
     \/ intervals.live > 0 /\ isStoppingRef
  /\ UNCHANGED vars

\* a rotation interval fires, rotateChunk passes its guard and saveCurrentChunk
\* reads recorderRef: no recorder -> null at once, on to createRecorder; else it
\* awaits recorder.stop()
RotateBegin ==
  /\ intervals.live > 0
  /\ ~isStoppingRef
  /\ rotations < MaxRotations
  /\ rotations' = rotations + 1
  /\ rots' = Append(rots, IF recorderRef = NULL
                          THEN [pc |-> "create", rec |-> NULL, chunkUri |-> NULL]
                          ELSE [pc |-> "stop", rec |-> recorderRef, chunkUri |-> NULL])
  /\ sess' = [sess EXCEPT !.rotBegun = @ + 1,
                          !.overlap = @ \/ RotInFlight \/ startCall.pc # "none"]
  /\ UNCHANGED app
  /\ UNCHANGED <<state, timerRefs, durationRef, streamRefs, transcriptionRef,
                 isStoppingRef, files, startCall, stops, pending,
                 calls, faults, transcribed>>

RotateStoppedDispatching(i, ok) ==
  /\ rots[i].pc = "stop"
  /\ ok \/ faults < MaxFaults
  /\ faults' = IF ok THEN faults ELSE faults + 1
  /\ IF ~ok
     THEN /\ rots' = Drop(rots, i)
          /\ UNCHANGED <<recorders, chunkFilesRef, chunksDir, now, pending>>
     ELSE IF recorders[rots[i].rec].file
     THEN /\ recorders' = [StopRec(recorders, rots[i].rec) EXCEPT ![rots[i].rec].file = FALSE]
          /\ chunksDir' = chunksDir \cup {now}
          /\ chunkFilesRef' = PushChunk(chunkFilesRef, now)
          /\ now' = now + 1
          /\ rots' = [rots EXCEPT ![i] = [pc |-> "create", rec |-> NULL, chunkUri |-> NULL]]
          /\ pending' = pending \cup {now}
     ELSE /\ recorders' = StopRec(recorders, rots[i].rec)
          /\ rots' = [rots EXCEPT ![i] = [pc |-> "create", rec |-> NULL, chunkUri |-> NULL]]
          /\ UNCHANGED <<chunkFilesRef, chunksDir, now, pending>>
  /\ UNCHANGED app
  /\ UNCHANGED <<state, timerRefs, durationRef, recorderRef, fullRecorderRef,
                 transcriptionRef, isStoppingRef, recordingsDir, startCall, stops,
                 calls, rotations, sess, transcribed>>

\* saveCurrentChunk after `await recorder.stop()` (rec: the handle it read before),
\* then rotateChunk goes on to await createRecorder; a throw ends rotateChunk in its catch
RotateStopped(i, ok) ==
  /\ rots[i].pc = "stop"
  /\ ok \/ faults < MaxFaults
  /\ faults' = IF ok THEN faults ELSE faults + 1
  /\ IF ~ok
     THEN /\ rots' = Drop(rots, i)
          /\ UNCHANGED <<recorders, chunkFilesRef, chunksDir, now>>
     ELSE IF recorders[rots[i].rec].file
     THEN /\ recorders' = [StopRec(recorders, rots[i].rec) EXCEPT ![rots[i].rec].file = FALSE]
          /\ chunksDir' = chunksDir \cup {now}
          /\ chunkFilesRef' = PushChunk(chunkFilesRef, now)
          /\ now' = now + 1
          /\ rots' = [rots EXCEPT ![i] = [pc |-> "create", rec |-> NULL, chunkUri |-> now]]
     ELSE /\ recorders' = StopRec(recorders, rots[i].rec)
          /\ rots' = [rots EXCEPT ![i] = [pc |-> "create", rec |-> NULL, chunkUri |-> NULL]]
          /\ UNCHANGED <<chunkFilesRef, chunksDir, now>>
  /\ UNCHANGED app
  /\ UNCHANGED <<state, timerRefs, durationRef, recorderRef, fullRecorderRef,
                 transcriptionRef, isStoppingRef, recordingsDir, startCall, stops,
                 pending, calls, rotations, sess, transcribed>>

\* rotateChunk after `await createRecorder(CHUNK_RECORDING_PRESET)`: the new handle
\* replaces recorderRef and records, then the saved chunk is handed to
\* transcribeChunk without awaiting it
RotateCreated(i, ok) ==
  /\ rots[i].pc = "create"
  /\ ok \/ faults < MaxFaults
  /\ faults' = IF ok THEN faults ELSE faults + 1
  /\ IF ok
     THEN /\ recorders' = Append(recorders, NewRecorder("chunk"))
          /\ recorderRef' = Len(recorders) + 1
          /\ pending' = IF rots[i].chunkUri # NULL
                        THEN pending \cup {rots[i].chunkUri} ELSE pending
          /\ rots' = Drop(rots, i)
          /\ sess' = [sess EXCEPT !.rotDone = @ + 1]
     ELSE /\ rots' = Drop(rots, i)
          /\ UNCHANGED <<recorders, recorderRef, pending, sess>>
  /\ UNCHANGED app
  /\ UNCHANGED <<state, timerRefs, durationRef, fullRecorderRef, transcriptionRef,
                 isStoppingRef, files, startCall, stops, calls, rotations, transcribed>>

\* ------------------------------------------------------------ transcribeChunk
\* how getSettings + transcribeAudio may end for chunk c
Outcomes(c) ==
  {[kind |-> "nokey", text |-> <<>>], [kind |-> "throw", text |-> <<>>]}
    \cup {[kind |-> "text", text |-> t] : t \in RawTexts(c)}

IsFault(o) == o.kind \in {"nokey", "throw"}

TranscribeIntoNothing(acc, o) == acc

TranscribeIntoOrMark(acc, o) ==
  IF o.kind = "text" THEN AppendText(acc, o.text)
  ELSE IF o.kind = "throw" THEN acc \o <<SP>> ELSE acc

\* transcribeChunk from its awaits to its end (the catch swallows a throw)
TranscribeInto(acc, o) == IF o.kind = "text" THEN AppendText(acc, o.text) ELSE acc

Transcript(c, o) == [chunk |-> c, ok |-> o.kind = "text", text |-> Trim(o.text)]

\* a background transcribeChunk(c), dispatched by a rotation, settles
TranscribeDone(c, o) ==
  /\ c \in pending
  /\ ~IsFault(o) \/ faults < MaxFaults
  /\ faults' = IF IsFault(o) THEN faults + 1 ELSE faults
  /\ pending' = pending \ {c}
  /\ transcriptionRef' = TranscribeInto(transcriptionRef, o)
  /\ liveTranscription' = IF transcriptionRef' # transcriptionRef
                          THEN transcriptionRef' ELSE liveTranscription
  /\ transcribed' = transcribed \cup {Transcript(c, o)}
  /\ UNCHANGED app
  /\ UNCHANGED <<isRecording, isPaused, duration, finalUri, timerRefs, durationRef,
                 streamRefs, isStoppingRef, files, startCall, stops, rots,
                 calls, rotations, sess>>

\* ------------------------------------------------------------ stopRecording
PartNumUnpadded(i) == Digits(i)

\* const partNum = String(i + 1).padStart(3, '0'): n is i + 1
PartNum(n) == PadStart(Digits(n), 3, 0)

\* the suffix of gravacao_<ts>_full.m4a
FullSuffix == <<>>

\* step 3 of stopRecording, from 1-based position i of the closed-chunk list on:
\* each chunk that still exists is moved to recordings/gravacao_<ts>_<partNum>.m4a;
\* a durable file is named <<ts, suffix>>
RECURSIVE MoveChunks(_, _, _, _)
MoveChunks(i, list, dir, ts) ==
  IF i > Len(list) THEN [parts |-> <<>>, chunks |-> <<>>, dir |-> dir]
  ELSE IF list[i] \in dir
  THEN LET rest == MoveChunks(i + 1, list, dir \ {list[i]}, ts)
       IN  [parts |-> <<(<<ts, PartNum(i)>>)>> \o rest.parts,
            chunks |-> <<list[i]>> \o rest.chunks,
            dir |-> rest.dir]
  ELSE MoveChunks(i + 1, list, dir, ts)

PrimaryUriPartFirst(fullFileUri, savedParts) ==
  IF Len(savedParts) > 0 THEN savedParts[1] ELSE fullFileUri

\* const primaryUri = fullFileUri || (savedParts.length > 0 ? savedParts[0] : '')
PrimaryUri(fullFileUri, savedParts) ==
  IF fullFileUri # NoUri THEN fullFileUri
  ELSE IF Len(savedParts) > 0 THEN savedParts[1] ELSE NoUri

NoResult == [fullUri |-> NoUri, uri |-> NoUri, duration |-> 0,
             transcription |-> <<>>, audioParts |-> <<>>, chunks |-> <<>>]

\* what a stopRecording call found when it was invoked
AtCall == [chunks |-> Len(chunkFilesRef), sess |-> sess, rotInFlight |-> RotInFlight,
           stopping |-> { k \in 1..Len(stops) :
                            stops[k].pc \in {"fullStop", "chunkStop", "transcribe"} }]

Range(q) == { q[k] : k \in 1..Len(q) }

\* stopRecording from "3. Move all chunks" to its return, for the call whose record
\* is st (in slot i of ss): list, dir, rdir and text are the closed-chunk list, the
\* scratch area, the recordings area and the transcript at that point
Finish(i, ss, st, list, dir, rdir, text) ==
  LET moved == MoveChunks(1, list, dir, st.timestamp)
      primaryUri == PrimaryUri(st.fullFileUri, moved.parts)
  IN  /\ chunksDir' = moved.dir
      /\ recordingsDir' = rdir \cup Range(moved.parts)
      /\ finalUri' = primaryUri
      /\ isRecording' = FALSE
      /\ isPaused' = FALSE
      /\ stops' = [ss EXCEPT ![i] =
           [st EXCEPT !.pc = "done", !.rec = NULL,
                      !.result = [fullUri |-> st.fullFileUri, uri |-> primaryUri,
                                  duration |-> st.currentDuration,
                                  transcription |-> text,
                                  audioParts |-> moved.parts,
                                  chunks |-> moved.chunks]]]

\* stopRecording up to its first await
StopCall ==
  /\ calls < MaxCalls
  /\ startCall.pc = "none"
  /\ calls' = calls + 1
  /\ isStoppingRef' = TRUE
  /\ timerRef' = NULL
  /\ chunkTimerRef' = "null"
  /\ intervals' = StopChunkTimerIv(StopTimerIv(intervals, timerRef), chunkTimerRef)
  /\ LET i == Len(stops) + 1
         st == [pc |-> "fullStop", currentDuration |-> durationRef, timestamp |-> i,
                fullFileUri |-> NoUri, rec |-> fullRecorderRef, lastChunk |-> NULL,
                result |-> NoResult,
                atCall |-> AtCall]
     IN  IF fullRecorderRef # NULL
         THEN /\ stops' = Append(stops, st)
              /\ UNCHANGED <<isRecording, isPaused, finalUri, chunksDir, recordingsDir>>
         ELSE IF recorderRef # NULL
         THEN /\ stops' = Append(stops, [st EXCEPT !.pc = "chunkStop", !.rec = recorderRef])
              /\ UNCHANGED <<isRecording, isPaused, finalUri, chunksDir, recordingsDir>>
         ELSE Finish(i, Append(stops, st), st, chunkFilesRef, chunksDir, recordingsDir,
                     transcriptionRef)
  /\ UNCHANGED app
  /\ UNCHANGED <<duration, liveTranscription, durationRef, streamRefs, chunkFilesRef,
                 transcriptionRef, now, startCall, rots, pending, faults, rotations,
                 sess, transcribed>>

\* "1. Stop the full recorder" after `await fullRecorder.stop()`: the file is moved
\* to recordings/ (a throw is caught and logged), fullRecorderRef is cleared, and
\* step 2 reads recorderRef: a recorder -> saveCurrentChunk awaits its stop()
StopFull(i, ok) ==
  /\ stops[i].pc = "fullStop"
  /\ ok \/ faults < MaxFaults
  /\ faults' = IF ok THEN faults ELSE faults + 1
  /\ LET r == stops[i].rec
         saved == ok /\ recorders[r].file
         dest == <<stops[i].timestamp, FullSuffix>>
         rdir == IF saved THEN recordingsDir \cup {dest} ELSE recordingsDir
         st == [stops[i] EXCEPT !.fullFileUri = IF saved THEN dest ELSE NoUri]
     IN  /\ recorders' = IF ~ok THEN recorders
                         ELSE [StopRec(recorders, r) EXCEPT ![r].file = FALSE]
         /\ fullRecorderRef' = NULL
         /\ IF recorderRef # NULL
            THEN /\ stops' = [stops EXCEPT ![i] = [st EXCEPT !.pc = "chunkStop",
                                                             !.rec = recorderRef]]
                 /\ recordingsDir' = rdir
                 /\ UNCHANGED <<isRecording, isPaused, finalUri, chunksDir>>
            ELSE Finish(i, stops, st, chunkFilesRef, chunksDir, rdir, transcriptionRef)
  /\ UNCHANGED app
  /\ UNCHANGED <<duration, liveTranscription, timerRefs, durationRef, recorderRef,
                 chunkFilesRef, transcriptionRef, isStoppingRef, now, startCall, rots,
                 pending, calls, rotations, sess, transcribed>>

\* "2. Save the last chunk" after saveCurrentChunk's `await recorder.stop()`: a throw
\* leaves stopRecording; a saved chunk is transcribed and awaited; no file -> null,
\* recorderRef is cleared and step 3 runs
StopChunk(i, ok) ==
  /\ stops[i].pc = "chunkStop"
  /\ ok \/ faults < MaxFaults
  /\ faults' = IF ok THEN faults ELSE faults + 1
  /\ LET r == stops[i].rec
     IN  IF ~ok
         THEN /\ stops' = [stops EXCEPT ![i].pc = "failed", ![i].rec = NULL]
              /\ UNCHANGED <<isRecording, isPaused, finalUri, recorderRef, recorders,
                             chunkFilesRef, chunksDir, recordingsDir, now>>
         ELSE IF recorders[r].file
         THEN /\ recorders' = [StopRec(recorders, r) EXCEPT ![r].file = FALSE]
              /\ chunksDir' = chunksDir \cup {now}
              /\ chunkFilesRef' = PushChunk(chunkFilesRef, now)
              /\ now' = now + 1
              /\ stops' = [stops EXCEPT ![i].pc = "transcribe", ![i].rec = now,
                                       ![i].lastChunk = now]
              /\ UNCHANGED <<isRecording, isPaused, finalUri, recorderRef, recordingsDir>>
         ELSE /\ recorders' = StopRec(recorders, r)
              /\ recorderRef' = NULL
              /\ Finish(i, stops, stops[i], chunkFilesRef, chunksDir, recordingsDir,
                        transcriptionRef)
              /\ UNCHANGED <<chunkFilesRef, now>>
  /\ UNCHANGED app
  /\ UNCHANGED <<duration, liveTranscription, timerRefs, durationRef, fullRecorderRef,
                 transcriptionRef, isStoppingRef, startCall, rots, pending, calls,
                 rotations, sess, transcribed>>

\* after `await transcribeChunk(lastChunkUri)` (rec holds the chunk being
\* transcribed): recorderRef is cleared and step 3 runs
StopTranscribed(i, o) ==
  /\ stops[i].pc = "transcribe"
  /\ ~IsFault(o) \/ faults < MaxFaults
  /\ faults' = IF IsFault(o) THEN faults + 1 ELSE faults
  /\ transcriptionRef' = TranscribeInto(transcriptionRef, o)
  /\ liveTranscription' = IF transcriptionRef' # transcriptionRef
                          THEN transcriptionRef' ELSE liveTranscription
  /\ transcribed' = transcribed \cup {Transcript(stops[i].rec, o)}
  /\ recorderRef' = NULL
  /\ Finish(i, stops, stops[i], chunkFilesRef, chunksDir, recordingsDir, transcriptionRef')
  /\ UNCHANGED app
  /\ UNCHANGED <<duration, timerRefs, durationRef, fullRecorderRef, recorders,
                 chunkFilesRef, isStoppingRef, now, startCall, rots, pending, calls,
                 rotations, sess>>

\* the completions the device, the network and the timers deliver
StartFullSettles == \E ok \in BOOLEAN : StartFull(ok)
StartChunkSettles == \E ok \in BOOLEAN : StartChunk(ok)
RotateStoppedSettles == \E i \in 1..Len(rots) : \E ok \in BOOLEAN : RotateStopped(i, ok)
RotateCreatedSettles == \E i \in 1..Len(rots) : \E ok \in BOOLEAN : RotateCreated(i, ok)
TranscribeSettles == \E c \in pending : \E o \in Outcomes(c) : TranscribeDone(c, o)
StopFullSettles == \E i \in 1..Len(stops) : \E ok \in BOOLEAN : StopFull(i, ok)
StopChunkSettles == \E i \in 1..Len(stops) : \E ok \in BOOLEAN : StopChunk(i, ok)
StopTranscribeSettles ==
  \E i \in 1..Len(stops) : \E o \in Outcomes(stops[i].rec) : StopTranscribed(i, o)

Background ==
  \/ StartDenied
  \/ StartGranted
  \/ StartFullSettles
  \/ StartChunkSettles
  \/ Tick
  \/ RotateSkip
  \/ RotateBegin
  \/ RotateStoppedSettles
  \/ RotateCreatedSettles
  \/ TranscribeSettles
  \/ StopFullSettles
  \/ StopChunkSettles
  \/ StopTranscribeSettles

\* any sequence of calls of the hook's four functions
Next ==
  \/ StartCall
  \/ PauseCall
  \/ ResumeCall
  \/ StopCall
  \/ Background

Spec == Init /\ [][Next]_vars

\* a caller that follows the session machine, as the recording screen does: start
\* when idle, pause when recording, resume when paused, stop when recording or paused
SessionStart == Phase = "idle" /\ StartCall
SessionPause == Phase = "recording" /\ PauseCall
SessionResume == Phase = "paused" /\ ResumeCall
SessionStop == Phase \in {"recording", "paused"} /\ StopCall

NextSession ==
  \/ SessionStart
  \/ SessionPause
  \/ SessionResume
  \/ SessionStop
  \/ Background

SpecSession == Init /\ [][NextSession]_vars

\* the same caller when every call a stopRecording awaits settles in the end: the
\* streams' stop() and the trailing chunk's transcription
SpecSessionSettling ==
  /\ SpecSession
  /\ WF_vars(StopFullSettles)
  /\ WF_vars(StopChunkSettles)
  /\ WF_vars(StopTranscribeSettles)

\* ------------------------------------------------------------ settings screen
\* handleSave of the settings screen: saveSettings with the switch's value
SaveSettings ==
  /\ calls < MaxCalls
  /\ calls' = calls + 1
  /\ \E v \in BOOLEAN : settings' = [settings EXCEPT !.liveTranscriptionEnabled = v]
  /\ UNCHANGED <<state, timerRefs, durationRef, streamRefs, transcriptionRef,
                 isStoppingRef, files, inflight, faults, rotations, sess, transcribed>>
  /\ UNCHANGED <<call, library>>

\* the settings screen is left before the recording screen is entered
SessionSettings == Phase = "idle" /\ SaveSettings

NextSettings ==
  \/ SessionSettings
  \/ NextSession

SpecSettings == Init /\ [][NextSettings]_vars

\* ================================================================ service calls
\* ------------------------------------------------------------ what a backend answers
MaxJunk == 2

Models == {"whisper-1", "gpt-4o-transcribe"}

SegA == JObj(<<"start", "end", "text">>, <<JNum(0), JNum(5), JStr(Str("a"))>>)
SegB == JObj(<<"start", "end", "text">>, <<JNum(0), JNum(5), JStr(<<WS, Word("b")>>)>>)
SegC == JObj(<<"start", "end", "text">>, <<JNum(0), JNum(3), JStr(Str("c"))>>)
SegZ == JObj(<<"start", "end", "text">>, <<JNum(0), JNum(0), JStr(Str("z"))>>)

Verbose(segs, text) == Stringify(JObj(<<"segments", "text">>, <<JArr(segs), JStr(text)>>))

\* bodies of a transcription response
TimestampBodies ==
  {Body(Verbose(<<SegA>>, Str("a"))),
   Body(Verbose(<<SegB>>, <<WS, Word("b")>>)),
   Body(Verbose(<<SegC>>, Str("c"))),
   Body(Verbose(<<SegA, SegC>>, Empty)),
   Body(Verbose(<<SegZ>>, Str("z"))),
   Body(Verbose(<<>>, Empty)),
   Body(Stringify(JObj(<<"text">>, <<JStr(Str("t"))>>))),
   Body(Stringify(JObj(<<"segments">>, <<JStr(Str("x"))>>))),
   Body(Stringify(JNull)),
   Body(<<WS, Word("texto"), WS, Word("puro"), WS>>),
   Body(Empty),
   BackendThrows}

TextBodies ==
  {Body(Empty), Body(Str("texto")), Body(<<WS, Word("Reuniao"), WS, Word("sobre"), WS>>),
   BackendThrows}

Turn == 
  JObj(<<"speaker", "start", "end", "text">>,
       <<JStr(Str("Advogado")), JStr(Str("00:00")), JStr(Str("00:05")),
         JStr(<<Word("bom"), WS, Word("dia")>>)>>)
TurnBare == JObj(<<"text">>, <<JStr(Str("oi"))>>)

\* what the model may answer to the diarization prompt, without decoration
Answers ==
  {Stringify(JArr(<<Turn>>)),
   Stringify(JObj(<<"segments">>, <<JArr(<<Turn, TurnBare>>)>>)),
   Stringify(JArr(<<>>)),
   Stringify(JArr(<<JNull>>)),
   Stringify(JObj(<<"segments">>, <<JStr(Str("x"))>>)),
   Stringify(JNull),
   SubSeq(Stringify(JArr(<<Turn>>)), 1, Len(Stringify(JArr(<<Turn>>))) - 1),
   Str("Desculpe"),
   Empty}

JunkToks == {WS, Fence, Word("json")}
JunkSeqs == UNION {[1..n -> JunkToks] : n \in 0..MaxJunk}

\* the same answers with white space, fences and the word json around them
DiarizeBodies ==
  {Body(pre \o a \o post) : pre \in JunkSeqs, a \in Answers, post \in JunkSeqs}
    \cup {BackendThrows}

\* ------------------------------------------------------------ stored dialogue values
MaxSegments == 2

TurnLists == UNION {[1..n -> {Turn, TurnBare}] : n \in 0..MaxSegments}

\* DiarizedTranscription
Payload(segs, plainText) ==
  JObj(<<"diarized", "segments", "plainText">>,
       <<JBool(TRUE), JArr(segs), JStr(plainText)>>)

Payloads ==
  {Payload(segs, text) : segs \in TurnLists,
                         text \in {Empty, <<Word("bom"), WS, Word("dia")>>}}

Prefixes(ts) == {SubSeq(ts, 1, n) : n \in 0..(Len(ts) - 1)}

\* strings that are no JSON text
NotJson ==
  {<<Word("Advogado:"), WS, Word("bom"), WS, Word("dia")>>, <<WS>>}
    \cup Prefixes(Stringify(Payload(<<Turn>>, Str("x"))))

\* JSON values without the tag or without a segment array
Untagged ==
  {JNull, JBool(TRUE), JNum(1), JStr(Str("diarized")), JArr(<<Turn>>),
   JObj(<<>>, <<>>),
   JObj(<<"segments", "plainText">>, <<JArr(<<Turn>>), JStr(Empty)>>),
   JObj(<<"diarized", "segments">>, <<JBool(FALSE), JArr(<<Turn>>)>>),
   JObj(<<"diarized", "segments">>, <<JStr(Str("true")), JArr(<<Turn>>)>>),
   JObj(<<"diarized", "segments">>, <<JNum(1), JArr(<<Turn>>)>>),
   JObj(<<"diarized", "segments">>, <<JNull, JArr(<<Turn>>)>>),
   JObj(<<"diarized", "plainText">>, <<JBool(TRUE), JStr(Str("x"))>>),
   JObj(<<"diarized", "segments">>, <<JBool(TRUE), JNull>>),
   JObj(<<"diarized", "segments">>, <<JBool(TRUE), JStr(Str("x"))>>),
   JObj(<<"diarized", "segments">>, <<JBool(TRUE), JObj(<<"length">>, <<JNum(0)>>)>>)}

\* ------------------------------------------------------------ calls
\* a call that has not been made yet
Request(op, provider, model, isNull, raw) ==
  [op |-> op, provider |-> provider, model |-> model, isNull |-> isNull, raw |-> raw,
   done |-> FALSE, backend |-> NoBackend, out |-> Returned(<<>>, Empty), val |-> JNull]

BodiesOf(op) ==
  CASE op = "transcribeAudioWithTimestamps" -> TimestampBodies
    [] op = "diarizeTranscription" -> DiarizeBodies
    [] OTHER -> TextBodies

AdapterRequests ==
  UNION {{Request(op, provider, model, FALSE, raw) :
            provider \in AnyProvider, model \in Models, raw \in BodiesOf(op)} :
         op \in Operations}

DialogueRequests ==
  {Request("isDiarizedTranscription", "none", "none", FALSE, Body(b)) :
     b \in {Stringify(v) : v \in Payloads \cup Untagged} \cup NotJson \cup {Empty}}
    \cup {Request("isDiarizedTranscription", "none", "none", TRUE, Body(Empty))}

InitServices ==
  /\ InitRecorder
  /\ settings = DefaultSettings
  /\ row = NoRow /\ disk = {}
  /\ diar = NoDiar /\ del = NoDel
  /\ call \in AdapterRequests \cup DialogueRequests

AdapterCall(op, out) ==
  /\ call.op = op
  /\ ~call.done
  /\ call' = [call EXCEPT !.done = TRUE, !.backend = Dispatch(op, call.provider),
                          !.out = out]
  /\ UNCHANGED <<recorder, settings, library>>

CallTranscribeAudio ==
  AdapterCall("transcribeAudio", transcribeAudio(call.provider, call.model, call.raw))

CallTranscribeAudioWithTimestamps ==
  AdapterCall("transcribeAudioWithTimestamps",
              transcribeAudioWithTimestamps(call.provider, call.model, call.raw))

CallGenerateDossier ==
  AdapterCall("generateDossier", generateDossier(call.provider, call.model, call.raw))

CallGenerateTitle ==
  AdapterCall("generateTitle", generateTitle(call.provider, call.model, call.raw))

CallDiarizeTranscription ==
  AdapterCall("diarizeTranscription",
              diarizeTranscription(call.provider, call.model, call.raw))

CallIsDiarizedTranscription ==
  /\ call.op = "isDiarizedTranscription"
  /\ ~call.done
  /\ call' = [call EXCEPT !.done = TRUE,
                          !.val = isDiarizedTranscription(call.isNull, call.raw.body)]
  /\ UNCHANGED <<recorder, settings, library>>

NextServices ==
  \/ CallIsDiarizedTranscription
  \/ CallTranscribeAudio
  \/ CallTranscribeAudioWithTimestamps
  \/ CallGenerateDossier
  \/ CallGenerateTitle
  \/ CallDiarizeTranscription

SpecServices == InitServices /\ [][NextServices]_vars

\* ================================================================ detail screen
MaxParts == 3

Uri(k) == <<Word("chunk_"), NumTok(k)>>
FullUri == Str("recording_full")

\* the row createRecording wrote for a recording of n parts
RowOf(n, transcription, dialogue) ==
  [exists |-> TRUE,
   file_path |-> IF n = 1 THEN Uri(1) ELSE FullUri,
   audio_parts |-> PartsJson([k \in 1..n |-> Uri(k)]),
   transcription |-> transcription,
   dialogue |-> dialogue]

Rows ==
  {RowOf(n, t, d) : n \in 0..MaxParts,
                    t \in {NullStr, Some(Str("texto"))},
                    d \in {NullStr, Some(<<Word("Advogado:"), WS, Word("bom"), WS, Word("dia")>>)}}

\* rows whose audio_parts column holds no JSON text
CorruptRows ==
  {[RowOf(2, NullStr, NullStr) EXCEPT !.audio_parts = Some(a)] :
     a \in {SubSeq(PartsJson(<<Uri(1), Uri(2)>>).str, 1, 2), Str("chunk_1")}}

\* what getSettings may give the detail screen
StoredSettings ==
  {[provider |-> pm[1], apiKey |-> key, transcriptionModel |-> pm[2],
    dossierModel |-> "gpt-4.1-mini", liveTranscriptionEnabled |-> TRUE] :
     pm \in {<<"openai", "whisper-1">>, <<"openai", "gpt-4o-transcribe">>,
             <<"groq", "whisper-large-v3">>, <<"gemini", "gemini-2.5-flash">>,
             <<"other", "whisper-1">>},
     key \in {Str("sk")}}
    \cup {DefaultSettings}

\* what the transcription of one part may answer
PartBodies ==
  {Body(Verbose(<<SegA>>, Str("a"))),
   Body(Verbose(<<SegB>>, <<WS, Word("b")>>)),
   Body(Verbose(<<SegC>>, Str("c"))),
   Body(Verbose(<<SegZ>>, Str("z"))),
   Body(Verbose(<<>>, Empty)),
   Body(<<WS, Word("texto"), WS, Word("puro"), WS>>),
   BackendThrows}

\* what the model may answer to the diarization prompt
DiarizeAnswers ==
  {Body(Stringify(JArr(<<Turn, TurnBare>>))),
   Body(Fenced(Stringify(JObj(<<"segments">>, <<JArr(<<Turn>>)>>)))),
   Body(Stringify(JNull)),
   Body(Fenced(Str("Desculpe"))),
   Body(SubSeq(Stringify(JArr(<<Turn>>)), 1, 3)),
   BackendThrows}

InitDetail ==
  /\ InitRecorder
  /\ settings \in StoredSettings
  /\ call = NoCall
  /\ row \in Rows \cup CorruptRows /\ disk = {}
  /\ diar = NoDiar /\ del = NoDel

\* ------------------------------------------------------------ handleDiarize
ShiftNothing(seg, timeOffset) == seg

\* {start: seg.start + timeOffset, end: seg.end + timeOffset, text: seg.text}
Shift(seg, timeOffset) == TSeg(seg.start + timeOffset, seg.end + timeOffset, seg.text)

FallbackSeconds == 5

AdvanceNothing(segments) == 0

AdvanceByEnd(segments) ==
  IF Len(segments) > 0 THEN segments[Len(segments)].end ELSE 0

\* what a part adds to timeOffset
Advance(segments) ==
  IF Len(segments) > 0
  THEN IF segments[Len(segments)].end > 0 THEN segments[Len(segments)].end
       ELSE FallbackSeconds
  ELSE FallbackSeconds

\* the catch and the finally
DiarizeFails(e) ==
  diar' = [diar EXCEPT !.pc = "done", !.error = e]

\* the call up to the first await of the loop
DiarizeCall ==
  /\ diar.pc = "idle"
  /\ row.exists
  /\ IF settings.apiKey = Empty
     THEN diar' = [diar EXCEPT !.pc = "done", !.error = "nokey", !.recording = row]
     ELSE diar' = [diar EXCEPT !.pc = IF PartsOf(getAudioParts(row)) = <<>> THEN "llm"
                                      ELSE "part",
                               !.recording = row,
                               !.provider = settings.provider,
                               !.model = settings.transcriptionModel,
                               !.parts = PartsOf(getAudioParts(row))]
  /\ UNCHANGED <<recorder, settings, call, row, disk, del>>

\* one round of the loop: transcribeAudioWithTimestamps settles for parts[i]
DiarizePart(raw) ==
  /\ diar.pc = "part"
  /\ LET result == transcribeAudioWithTimestamps(diar.provider, diar.model, raw)
     IN  IF ~result.ok THEN DiarizeFails(result.err)
         ELSE diar' =
           [diar EXCEPT
              !.allSegments = @ \o [k \in 1..Len(result.segments) |->
                                      Shift(result.segments[k], diar.timeOffset)],
              !.plainTextParts = IF result.plainText # Empty
                                 THEN Append(@, result.plainText) ELSE @,
              !.timeOffset = @ + Advance(result.segments),
              !.results = Append(@, result.segments),
              !.plains = Append(@, result.plainText),
              !.i = @ + 1,
              !.pc = IF diar.i + 1 < Len(diar.parts) THEN "part" ELSE "llm"]
  /\ UNCHANGED <<recorder, settings, call, row, disk, del>>

\* diarizeTranscription settles
DiarizeAnswer(raw) ==
  /\ diar.pc = "llm"
  /\ LET result == diarizeTranscription(diar.provider, settings.dossierModel, raw)
     IN  IF ~result.ok
         THEN diar' = [diar EXCEPT !.pc = "done", !.error = result.err,
                                   !.asked = TRUE, !.response = raw,
                                   !.sent = DiarizeSends(diar.provider, diar.allSegments)]
         ELSE diar' = [diar EXCEPT !.pc = "saveDialogue", !.diarized = result.segments,
                                   !.asked = TRUE, !.response = raw,
                                   !.sent = DiarizeSends(diar.provider, diar.allSegments)]
  /\ UNCHANGED <<recorder, settings, call, row, disk, del>>

\* DiarizedTranscription as a value
DiarizedResult(segments, plainTextParts) ==
  Payload([k \in 1..Len(segments) |->
             JObj(<<"speaker", "start", "end", "text">>,
                  <<segments[k].speaker, segments[k].start, segments[k].end,
                    segments[k].text>>)],
          JoinStrings(plainTextParts))

BackfillAlways(recording) == TRUE

\* if (!recording.transcription)
Backfill(recording) == Falsy(recording.transcription)

\* updateDialogue settles
DiarizeSaveDialogue(ok) ==
  /\ diar.pc = "saveDialogue"
  /\ IF ~ok THEN DiarizeFails("storage") /\ UNCHANGED row
     ELSE /\ row' = [row EXCEPT !.dialogue =
                       Some(Stringify(DiarizedResult(diar.diarized, diar.plainTextParts)))]
          /\ diar' = [diar EXCEPT !.pc = IF Backfill(diar.recording)
                                         THEN "saveTranscription" ELSE "done"]
  /\ UNCHANGED <<recorder, settings, call, disk, del>>

\* updateTranscription settles
DiarizeSaveTranscription(ok) ==
  /\ diar.pc = "saveTranscription"
  /\ IF ~ok THEN DiarizeFails("storage") /\ UNCHANGED row
     ELSE /\ row' = [row EXCEPT !.transcription = Some(JoinStrings(diar.plainTextParts))]
          /\ diar' = [diar EXCEPT !.pc = "done"]
  /\ UNCHANGED <<recorder, settings, call, disk, del>>

DiarizePartSettles == \E raw \in PartBodies : DiarizePart(raw)
DiarizeAnswerSettles == \E raw \in DiarizeAnswers : DiarizeAnswer(raw)
DiarizeSaveDialogueSettles == \E ok \in BOOLEAN : DiarizeSaveDialogue(ok)
DiarizeSaveTranscriptionSettles == \E ok \in BOOLEAN : DiarizeSaveTranscription(ok)

NextDetail ==
  \/ DiarizeCall
  \/ DiarizePartSettles
  \/ DiarizeAnswerSettles
  \/ DiarizeSaveDialogueSettles
  \/ DiarizeSaveTranscriptionSettles

SpecDetail == InitDetail /\ [][NextDetail]_vars

\* ================================================================ list screen
\* every file the row names
Referenced(recording) ==
  {recording.file_path} \cup
    {PartsOf(getAudioParts(recording))[k] : k \in 1..Len(PartsOf(getAudioParts(recording)))}

InitList ==
  /\ InitRecorder
  /\ settings = DefaultSettings
  /\ call = NoCall
  /\ row \in Rows
  /\ disk \in SUBSET Referenced(row)
  /\ diar = NoDiar /\ del = NoDel

\* the files handleDelete visits, in order: file_path, then every part that is not
\* file_path
RECURSIVE Others(_, _)
Others(parts, file_path) ==
  IF parts = <<>> THEN <<>>
  ELSE IF Head(parts) = file_path THEN Others(Tail(parts), file_path)
  ELSE <<Head(parts)>> \o Others(Tail(parts), file_path)

Visits(recording) ==
  <<recording.file_path>> \o Others(PartsOf(getAudioParts(recording)), recording.file_path)

\* if (file.exists) file.delete() for each file of the list, until a delete throws:
\* bad are the files whose delete throws
RECURSIVE Sweep(_, _, _, _)
Sweep(list, d, bad, attempted) ==
  IF list = <<>> THEN [disk |-> d, attempted |-> attempted, threw |-> FALSE]
  ELSE IF Head(list) \in d /\ Head(list) \in bad
  THEN [disk |-> d, attempted |-> attempted \cup {Head(list)}, threw |-> TRUE]
  ELSE Sweep(Tail(list), d \ {Head(list)}, bad, attempted \cup {Head(list)})

\* handleDelete: the alert opens
DeleteAsk ==
  /\ del.pc = "idle"
  /\ row.exists
  /\ del' = [del EXCEPT !.pc = "alert", !.recording = row]
  /\ UNCHANGED <<recorder, settings, call, row, disk, diar>>

\* "Cancelar"
DeleteCancel ==
  /\ del.pc = "alert"
  /\ del' = NoDel
  /\ UNCHANGED <<recorder, settings, call, row, disk, diar>>

\* onPress of "Excluir" up to await deleteRecording: the try block and its catch
DeleteFiles(bad) ==
  /\ del.pc = "alert"
  /\ LET r == Sweep(Visits(del.recording), disk, bad, {})
     IN  /\ disk' = r.disk
         /\ del' = [del EXCEPT !.pc = "db", !.attempted = r.attempted,
                                !.threw = r.threw]
  /\ UNCHANGED <<recorder, settings, call, row, diar>>

\* deleteRecording settles
DeleteRecord ==
  /\ del.pc = "db"
  /\ row' = NoRow
  /\ del' = [del EXCEPT !.pc = "done"]
  /\ UNCHANGED <<recorder, settings, call, disk, diar>>

DeletePressed == \E bad \in SUBSET disk : DeleteFiles(bad)

NextList ==
  \/ DeleteAsk
  \/ DeleteCancel
  \/ DeletePressed
  \/ DeleteRecord

SpecList == InitList /\ [][NextList]_vars

\* ================================================================ claims
Done(i) == stops[i].pc = "done"
Result(i) == stops[i].result

\* C1: for every sequence of start/pause/resume calls with rotation ticks in
\* between, at most one full-fidelity stream and at most one chunk stream is open.
C1_OneStreamPerRole ==
  stops = <<>> => Cardinality(Open("full")) <= 1 /\ Cardinality(Open("chunk")) <= 1

\* C2: in a session with no pause, when N rotations have completed
\* before stopRecording is called the closed-chunk list holds N entries at the
\* call and the result lists N + 1 parts.
C2_PartsAsStated ==
  \A i \in 1..Len(stops) :
    (Done(i) /\ ~stops[i].atCall.sess.paused)
      => /\ stops[i].atCall.chunks = stops[i].atCall.sess.rotDone
         /\ Len(Result(i).audioParts) = stops[i].atCall.sess.rotDone + 1

\* the trimmed text the provider returned for chunk c (empty: none, or a failure)
TextOf(c) ==
  IF \E t \in transcribed : t.chunk = c /\ t.ok
  THEN (CHOOSE t \in transcribed : t.chunk = c /\ t.ok).text
  ELSE <<>>

\* the space-joined non-empty texts of the chunks of q, in q's order
RECURSIVE JoinTexts(_)
JoinTexts(q) ==
  IF q = <<>> THEN <<>>
  ELSE LET rest == JoinTexts(Tail(q))
           t == TextOf(Head(q))
       IN  IF t = <<>> THEN rest
           ELSE IF rest = <<>> THEN t ELSE t \o <<SP>> \o rest

\* C3: the transcription stopRecording returned is the space-joined, trimmed,
\* non-empty transcription results of all its parts in rotation order, whatever
\* order the transcriptions completed in (read once every part's transcription
\* has settled).
C3_TranscriptInRotationOrder ==
  \A i \in 1..Len(stops) :
    (Done(i) /\ \A c \in Range(Result(i).chunks) : \E t \in transcribed : t.chunk = c)
      => Result(i).transcription = JoinTexts(Result(i).chunks)

\* C4: once stopRecording has been invoked no replacement chunk stream is opened:
\* while the stopping flag is set no recorder is created.
C4_NoStreamOpenedOnceStopping ==
  [][(isStoppingRef /\ isStoppingRef') => Len(recorders') = Len(recorders)]_vars

\* C5: a stopRecording invoked while another one is in progress returns the same
\* result as that pending call.
C5_SecondStopSameResult ==
  \A j \in 1..Len(stops) : \A i \in stops[j].atCall.stopping :
    (Done(i) /\ Done(j)) => Result(j) = Result(i)

\* the state the observable flags encode
MachineState ==
  IF ~isRecording THEN (IF isPaused THEN "invalid" ELSE "idle")
  ELSE IF isStoppingRef THEN "stopping"
  ELSE IF isPaused THEN "paused" ELSE "recording"

Machine ==
  { <<"idle", "recording">>, <<"recording", "paused">>, <<"paused", "recording">>,
    <<"recording", "stopping">>, <<"paused", "stopping">>, <<"stopping", "idle">> }

\* C6: for every sequence of start/pause/resume/stop calls the flags move only
\* along idle -> recording -> {paused <-> recording} -> stopping -> idle and never
\* encode a state outside it (such as paused while not recording).
C6_StateMachine ==
  [][MachineState' = MachineState \/ <<MachineState, MachineState'>> \in Machine]_vars

\* C7: while the session is paused no rotation begins, elapsedSeconds does not
\* change and both stream handles stay the handles they were at the pause.
C7_FrozenWhilePaused ==
  [][(Phase = "paused" /\ Phase' = "paused")
       => /\ rotations' = rotations
          /\ duration' = duration /\ durationRef' = durationRef
          /\ recorderRef' = recorderRef /\ fullRecorderRef' = fullRecorderRef]_vars

\* C8: when permission is refused startRecording throws and changes nothing: no
\* stream, no ticker, and duration, transcript, closed-chunk list and scratch area
\* keep their values.
C8_DeniedChangesNothing ==
  [][(startCall.pc = "perm" /\ startCall'.pc = "none")
       => /\ startCall'.error = "permission"
          /\ UNCHANGED <<recorders, recorderRef, fullRecorderRef>>
          /\ UNCHANGED <<timerRef, chunkTimerRef, intervals>>
          /\ UNCHANGED <<duration, durationRef, transcriptionRef, liveTranscription>>
          /\ UNCHANGED <<chunkFilesRef, chunksDir, isRecording, isPaused, isStoppingRef>>]_vars

\* a refused start after a session that left a duration, a transcript and chunks
C8_Witness ==
  /\ startCall.pc = "none" /\ startCall.error = "permission"
  /\ durationRef > 0 /\ transcriptionRef # <<>> /\ chunkFilesRef # <<>>

\* C9: in startRecording a failure to open the full stream is not fatal (the
\* handle is null, the call goes on to open the chunk stream and, when that
\* opens, both tickers are armed); a failure to open the chunk stream ends the
\* call with the error, nothing armed.
C9_StartFailures ==
  [][/\ (startCall.pc = "full" /\ startCall'.pc # "full")
          => /\ startCall'.pc = "chunk" /\ startCall'.error = "none"
             /\ Len(recorders') = Len(recorders) => fullRecorderRef' = NULL
     /\ (startCall.pc = "chunk" /\ startCall'.pc = "none")
          => IF Len(recorders') > Len(recorders)
             THEN /\ startCall'.error = "none"
                  /\ isRecording'
                  /\ recorderRef' = Len(recorders')
                  /\ recorders'[recorderRef'].role = "chunk"
                  /\ recorders'[recorderRef'].st = "recording"
                  /\ timerRef' # NULL /\ chunkTimerRef' # "null"
                  /\ intervals'.timer > 0
                  /\ intervals'.live + intervals'.stale > 0
             ELSE /\ startCall'.error = "chunk"
                  /\ UNCHANGED <<isRecording, recorderRef, timerRef, chunkTimerRef, intervals>>]_vars

\* a session recording chunk-only after the full stream failed to open
C9_Witness ==
  /\ stops = <<>> /\ startCall.pc = "none" /\ startCall.error = "none"
  /\ isRecording /\ fullRecorderRef = NULL /\ Open("full") = {}
  /\ recorderRef # NULL /\ timerRef # NULL /\ chunkTimerRef # "null"

\* C10: the uri stopRecording returns is the full-fidelity file whenever that was
\* persisted, else the first durable part, and empty only when there is neither.
C10_PrimaryUri ==
  \A i \in 1..Len(stops) : Done(i) =>
    LET full == <<stops[i].timestamp, FullSuffix>>
        parts == Result(i).audioParts
    IN  /\ full \in recordingsDir => Result(i).uri = full
        /\ (full \notin recordingsDir /\ parts # <<>>)
             => /\ Result(i).uri = parts[1]
                /\ \A k \in 1..Len(parts) :
                     DigitsValue(parts[1][2]) <= DigitsValue(parts[k][2])
        /\ Result(i).uri = NoUri <=> (full \notin recordingsDir /\ parts = <<>>)

\* a stop that fell back to its first part, and one that returned the full file
C10_Witness ==
  /\ \E i \in 1..Len(stops) :
       /\ Done(i) /\ Result(i).fullUri = NoUri
       /\ Result(i).uri = <<stops[i].timestamp, PartNum(1)>>
  /\ \E i \in 1..Len(stops) :
       /\ Done(i) /\ Result(i).uri = <<stops[i].timestamp, FullSuffix>>
       /\ Result(i).audioParts # <<>>

\* sub occurs in s as a run of consecutive characters
Contains(s, sub) ==
  \E k \in 0..(Len(s) - Len(sub)) : SubSeq(s, k + 1, k + Len(sub)) = sub

\* C11: stopRecording does not return before the transcription of the trailing
\* chunk it saved has settled, and when that transcription gave non-empty text the
\* returned transcription contains it.
C11_FinalChunkAwaited ==
  \A i \in 1..Len(stops) :
    (Done(i) /\ stops[i].lastChunk # NULL)
      => \E t \in transcribed :
           /\ t.chunk = stops[i].lastChunk
           /\ (t.ok /\ t.text # <<>>) => Contains(Result(i).transcription, t.text)

\* a stop returned whose trailing chunk was transcribed to non-empty text, after
\* an earlier chunk's text
C11_Witness ==
  \E i \in 1..Len(stops) :
    /\ Done(i) /\ stops[i].lastChunk # NULL
    /\ \E t \in transcribed : t.chunk = stops[i].lastChunk /\ t.ok /\ t.text # <<>>
                                /\ Len(Result(i).transcription) > Len(t.text)
\* C12: while the live-transcription flag is off, rotations still close and
\* persist chunks but dispatch no chunk transcription, and the live transcript
\* does not change.
C12_OffDispatchesNothing ==
  [][(~settings.liveTranscriptionEnabled /\ ~settings'.liveTranscriptionEnabled)
       => /\ pending' \subseteq pending
          /\ liveTranscription' = liveTranscription]_vars

\* C16: diarizeTranscription gives for a response wrapped in a json code fence
\* what it gives for the response itself: the same segment list, or the same
\* parse error.
C16_FenceIsTransparent ==
  (call.op = "diarizeTranscription" /\ call.done /\ call.raw.kind # "throw")
    => diarizeTranscription(call.provider, call.model, Body(Fenced(call.raw.body)))
         = call.out

C16_Witness ==
  /\ call.op = "diarizeTranscription"
  /\ call.done
  /\ call.raw = Body(Stringify(JObj(<<"segments">>, <<JArr(<<Turn, TurnBare>>)>>)))
  /\ call.out.ok
  /\ Len(call.out.segments) = 2
  /\ call.out.segments[2].speaker = JStr(Str("Desconhecido"))
  /\ DiarizeParse(Fenced(call.raw.body)).ok

\* C19: every adapter operation reaches the backend of the provider it is given
\* when that is one of the three known providers, and for any other provider it
\* throws the unsupported-provider error and reaches no backend.
C19_DispatchOnProvider ==
  (call.op \in Operations /\ call.done) =>
    /\ call.provider \in Providers =>
         /\ call.backend.lib = call.provider
         /\ call.backend.fn =
              (CASE call.op = "transcribeAudio" -> "transcribe"
                 [] call.op = "transcribeAudioWithTimestamps" -> "transcribeTimestamped"
                 [] call.op \in {"generateDossier", "generateTitle",
                                 "diarizeTranscription"} -> "generateDossier")
         /\ call.out.err # "unsupported"
         /\ call.raw.kind = "throw" => call.out.err = "backend"
    /\ call.provider \notin Providers =>
         /\ call.backend = NoBackend
         /\ ~call.out.ok
         /\ call.out.err = "unsupported"

C19_Witness ==
  /\ call.op = "generateTitle"
  /\ call.done
  /\ call.provider = "other"
  /\ call.raw.kind = "body"
  /\ call.out = Threw("unsupported")

\* C20: timestamped transcription with OpenAI and a model other than whisper-1, or
\* with Gemini answering something that is no JSON, returns one segment from 0 to
\* 0 holding the trimmed text of the response, and that text as plainText.
C20_FallbackSegment ==
  (/\ call.op = "transcribeAudioWithTimestamps"
   /\ call.done
   /\ call.raw.kind # "throw"
   /\ \/ call.provider = "openai" /\ call.model # "whisper-1"
      \/ call.provider = "gemini" /\ ~JSONParse(call.raw.body).ok)
    => /\ call.out.ok
       /\ call.out.segments = <<TSeg(0, 0, TrimToks(call.raw.body))>>
       /\ call.out.plainText = TrimToks(call.raw.body)

C20_Witness ==
  /\ call.op = "transcribeAudioWithTimestamps"
  /\ call.done
  /\ call.provider = "openai"
  /\ call.model = "gpt-4o-transcribe"
  /\ call.raw = Body(<<WS, Word("texto"), WS, Word("puro"), WS>>)
  /\ call.out.segments = <<TSeg(0, 0, <<Word("texto"), WS, Word("puro")>>)>>

\* C18: isDiarizedTranscription gives back the payload whose JSON serialisation it
\* is handed, and gives null, without throwing, for null, the empty string, a
\* string that is no JSON, and JSON without diarized === true or without an array
\* under segments.
C18_TaggedRoundTrip ==
  (call.op = "isDiarizedTranscription" /\ call.done) =>
    /\ call.out.ok
    /\ \A payload \in Payloads :
         (~call.isNull /\ call.raw.body = Stringify(payload)) => call.val = payload
    /\ (\/ call.isNull
        \/ call.raw.body \in NotJson \cup {Empty}
        \/ \E v \in Untagged : call.raw.body = Stringify(v))
         => call.val = JNull

C18_Witness ==
  /\ call.op = "isDiarizedTranscription"
  /\ call.done
  /\ call.raw.body = Stringify(Payload(<<Turn, TurnBare>>, <<Word("bom"), WS, Word("dia")>>))
  /\ call.val = Payload(<<Turn, TurnBare>>, <<Word("bom"), WS, Word("dia")>>)
  /\ call.val # JNull

\* what the parts before part k add to the offset: for each the end of its last
\* segment when that is positive, else 5 seconds
RECURSIVE OffsetBefore(_, _)
OffsetBefore(results, k) ==
  IF k <= 1 THEN 0
  ELSE LET segs == results[k - 1]
           last == IF segs = <<>> THEN 0 ELSE segs[Len(segs)].end
       IN  OffsetBefore(results, k - 1) + (IF last > 0 THEN last ELSE 5)

RECURSIVE Concat(_)
Concat(lists) == IF lists = <<>> THEN <<>> ELSE Head(lists) \o Concat(Tail(lists))

\* C13: the merged segment list of handleDiarize is the concatenation, in part
\* order, of the segments each part returned, with start and end raised by what
\* the earlier parts added to the offset.
C13_MergedInPartOrder ==
  diar.allSegments =
    Concat([k \in 1..Len(diar.results) |->
              [j \in 1..Len(diar.results[k]) |->
                 [start |-> diar.results[k][j].start + OffsetBefore(diar.results, k),
                  end |-> diar.results[k][j].end + OffsetBefore(diar.results, k),
                  text |-> diar.results[k][j].text]]])

C13_Witness ==
  /\ diar.results = <<<<TSeg(0, 5, Str("a"))>>, <<TSeg(0, 5, Str("b"))>>,
                      <<TSeg(0, 3, Str("c"))>>>>
  /\ diar.allSegments = <<TSeg(0, 5, Str("a")), TSeg(5, 10, Str("b")),
                          TSeg(10, 13, Str("c"))>>
  /\ diar.pc = "llm"

\* C14: a round of the loop of handleDiarize raises the offset by the end of the
\* last segment the part returned when that end is positive, and by 5 when the
\* part returned no segment or that end is not positive; the segments it appends
\* are those of the part raised by the offset the earlier rounds left.
C14_OffsetAdvance ==
  [][(diar.pc = "part" /\ diar'.i = diar.i + 1) =>
       LET segs == diar'.results[diar'.i]
           n == Len(segs)
       IN  /\ diar'.timeOffset - diar.timeOffset =
                (IF n = 0 THEN 5 ELSE IF segs[n].end > 0 THEN segs[n].end ELSE 5)
           /\ Len(diar'.allSegments) = Len(diar.allSegments) + n
           /\ \A j \in 1..n :
                LET seg == diar'.allSegments[Len(diar.allSegments) + j]
                IN  /\ seg.start = segs[j].start + diar.timeOffset
                    /\ seg.end = segs[j].end + diar.timeOffset]_vars

C14_Witness ==
  /\ diar.i = 3
  /\ diar.results = <<<<>>, <<TSeg(0, 0, <<Word("texto"), WS, Word("puro")>>)>>,
                      <<TSeg(0, 5, Str("a"))>>>>
  /\ diar.allSegments = <<TSeg(5, 5, <<Word("texto"), WS, Word("puro")>>),
                          TSeg(10, 15, Str("a"))>>
  /\ diar.timeOffset = 15

\* C15: when what the model answered is no JSON once the fences are stripped,
\* handleDiarize ends with the parse error and the row keeps the dialogue and the
\* transcription it had when the action began.
C15_ParseErrorAppliesNothing ==
  (/\ diar.asked
   /\ diar.response.kind = "body"
   /\ ~JSONParse(Cleaned(diar.response.body)).ok)
    => /\ diar.pc = "done"
       /\ diar.error = "parse"
       /\ row.dialogue = diar.recording.dialogue
       /\ row.transcription = diar.recording.transcription

C15_Witness ==
  /\ diar.asked
  /\ diar.response = Body(Fenced(Str("Desculpe")))
  /\ diar.error = "parse"
  /\ Len(diar.allSegments) = 2
  /\ row.dialogue = Some(<<Word("Advogado:"), WS, Word("bom"), WS, Word("dia")>>)
  /\ Falsy(row.transcription)

\* C17: once a recording is deleted, the deletion of every file named by its
\* audio_parts and of its file_path has been attempted and the row is gone.
C17_DeleteReachesEveryFile ==
  del.pc = "done" =>
    /\ del.attempted = Referenced(del.recording)
    /\ ~row.exists

\* C21: a rotation tick that fires while the session is paused or a stop is in
\* progress does nothing: no rotateChunk passes its guard, so nothing is closed,
\* opened, appended or dispatched on its behalf.
C21_TickSkippedWhilePausedOrStopping ==
  [][(Phase \in {"paused", "stopping"})
       => (rotations' = rotations /\ Len(rots') <= Len(rots))]_vars

\* C22: in a rotation the chunk stream is closed and its file put in the scratch
\* area first, the replacement stream is opened and recording next, and the closed
\* chunk is handed to transcription in that same step and not before; the
\* rotation ends there, with the transcription still to settle.
C22_RotationOrder ==
  [][/\ \A i \in 1..Len(rots) :
          (rots[i].pc = "stop" /\ Len(chunkFilesRef') > Len(chunkFilesRef)
             /\ Len(rots') = Len(rots) /\ rots'[i].pc = "create")
            => /\ recorders'[rots[i].rec].st = "stopped"
               /\ rots'[i].chunkUri \in chunksDir'
               /\ rots'[i].chunkUri \notin pending'
               /\ Len(recorders') = Len(recorders)
     /\ \A c \in pending' \ pending :
          /\ \E i \in 1..Len(rots) : rots[i].pc = "create" /\ rots[i].chunkUri = c
          /\ Len(rots') = Len(rots) - 1
          /\ Len(recorders') = Len(recorders) + 1
          /\ recorderRef' = Len(recorders')
          /\ recorders'[recorderRef'] = NewRecorder("chunk")
          /\ \A t \in transcribed' : t.chunk # c]_vars

\* a rotation that has ended with its chunk's transcription still in flight
C22_Witness ==
  /\ rots = <<>> /\ stops = <<>> /\ sess.rotDone = 1
  /\ pending # {} /\ pending \subseteq Range(chunkFilesRef)
  /\ \A t \in transcribed : t.chunk \notin pending
  /\ recorderRef # NULL /\ recorders[recorderRef].st = "recording"

\* C23: when a chunk transcription dispatched by a rotation fails it changes
\* nothing but its own end: the transcript and the live transcript, both tickers,
\* the stream handles and streams, the stopping flag and every call in flight stay
\* as they were, so the session and its rotations go on.
C23_FailedTranscriptionSwallowed ==
  [][\A c \in pending \ pending' :
       (\E t \in transcribed' : t.chunk = c /\ ~t.ok)
         => /\ UNCHANGED <<transcriptionRef, liveTranscription>>
            /\ UNCHANGED <<timerRef, chunkTimerRef, intervals>>
            /\ UNCHANGED <<recorderRef, fullRecorderRef, recorders>>
            /\ UNCHANGED <<isRecording, isPaused, isStoppingRef>>
            /\ UNCHANGED <<startCall, stops, rots>>
            /\ pending' = pending \ {c}]_vars

\* a session whose first chunk failed to transcribe and whose second rotation
\* completed afterwards, both tickers armed
C23_Witness ==
  /\ stops = <<>> /\ sess.rotDone = 2 /\ Len(chunkFilesRef) = 2
  /\ \E t \in transcribed : t.chunk = chunkFilesRef[1] /\ ~t.ok
  /\ chunkFilesRef[2] \in pending
  /\ transcriptionRef = <<>>
  /\ timerRef # NULL /\ chunkTimerRef = "live"
  /\ intervals.timer = 1 /\ intervals.live = 1
  /\ recorderRef # NULL /\ recorders[recorderRef].st = "recording"

IsPrefix(a, b) == Len(a) <= Len(b) /\ SubSeq(b, 1, Len(a)) = a

\* C24: between two starts the transcript only grows at its end: each value is a
\* prefix of the next, a settled transcription with non-empty trimmed text appends
\* that text, after one space when the transcript was not empty, and any other
\* settled transcription leaves it as it was; the live transcript shown follows it.
C24_TranscriptAppendOnly ==
  [][\/ startCall.pc = "perm" /\ startCall'.pc = "full"
     \/ /\ IsPrefix(transcriptionRef, transcriptionRef')
        /\ IsPrefix(liveTranscription, liveTranscription')
        /\ transcribed' = transcribed => transcriptionRef' = transcriptionRef
        /\ \A t \in transcribed' \ transcribed :
             transcriptionRef' =
               IF t.ok /\ t.text # <<>>
               THEN transcriptionRef
                      \o (IF transcriptionRef # <<>> THEN <<SP>> ELSE <<>>) \o t.text
               ELSE transcriptionRef
        /\ transcriptionRef' # transcriptionRef => liveTranscription' = transcriptionRef'
        /\ \A t \in transcribed' : t.text = <<>> \/ (t.text[1] # SP /\ t.text[Len(t.text)] # SP)]_vars

\* chunks 1 and 3 gave text, chunk 2 gave white space only
C24_Witness ==
  /\ Len(chunkFilesRef) = 3
  /\ transcriptionRef = <<chunkFilesRef[1], SP, chunkFilesRef[3]>>
  /\ liveTranscription = transcriptionRef
  /\ \E t \in transcribed : t.chunk = chunkFilesRef[2] /\ t.ok /\ t.text = <<>>

\* C25: between two starts the closed-chunk list changes only by one entry added at
\* its end, in the step that closes a chunk stream and puts its file in the scratch
\* area; so the list is in closing order and names no chunk twice, whatever
\* rotations and stop are in flight.
C25_ChunkListAppendOnly ==
  [][\/ startCall.pc = "perm" /\ startCall'.pc = "full"
     \/ /\ IsPrefix(chunkFilesRef, chunkFilesRef')
        /\ Len(chunkFilesRef') <= Len(chunkFilesRef) + 1
        /\ Len(chunkFilesRef') = Len(chunkFilesRef) + 1 =>
             /\ chunkFilesRef'[Len(chunkFilesRef')] \in chunksDir' \ chunksDir
             /\ \E r \in 1..Len(recorders) :
                  /\ recorders[r].role = "chunk" /\ recorders[r].st # "stopped"
                  /\ recorders'[r].st = "stopped"
        /\ \A j, k \in 1..Len(chunkFilesRef') :
             j < k => chunkFilesRef'[j] < chunkFilesRef'[k]]_vars

\* two rotations and a stop in one session: three chunks in the list
C25_Witness ==
  /\ Len(stops) = 1 /\ Done(1)
  /\ stops[1].atCall.sess.rotDone = 2
  /\ Len(chunkFilesRef) = 3
  /\ chunkFilesRef[3] = stops[1].lastChunk

Position(list, c) == CHOOSE k \in 1..Len(list) : list[k] = c

\* C26: in the step where a stopRecording call returns, the chunks of the
\* closed-chunk list that were still in the scratch area leave it and arrive in the
\* recordings area under names that were not there before, one per chunk; each name
\* ends in three digits that read the chunk's 1-based position in the list; the
\* returned parts follow the order of the list.
C26_ChunksMovedByPosition ==
  [][\A i \in 1..Len(stops') :
       (stops'[i].pc = "done" /\ (i > Len(stops) \/ stops[i].pc # "done")) =>
         LET res == stops'[i].result
             ts == stops'[i].timestamp
             list == chunkFilesRef'
             Exists(c) == c \in chunksDir
         IN  /\ res.chunks = SelectSeq(list, Exists)
             /\ Len(res.audioParts) = Len(res.chunks)
             /\ \A k \in 1..Len(res.chunks) :
                  /\ res.audioParts[k][1] = ts
                  /\ Len(res.audioParts[k][2]) = 3
                  /\ DigitsValue(res.audioParts[k][2]) = Position(list, res.chunks[k])
                  /\ res.audioParts[k] \notin recordingsDir
                  /\ res.audioParts[k] \in recordingsDir'
                  /\ res.chunks[k] \notin chunksDir'
             /\ \A j, k \in 1..Len(res.chunks) :
                  j < k => Position(list, res.chunks[j]) < Position(list, res.chunks[k])
             /\ Cardinality(Range(res.audioParts)) = Len(res.audioParts)
             /\ chunksDir' = chunksDir \ Range(list)]_vars

\* a stop that moved three chunks to gravacao_<ts>_001 .. _003
C26_Witness ==
  /\ Len(stops) = 1 /\ Done(1)
  /\ Len(chunkFilesRef) = 3
  /\ Result(1).chunks = chunkFilesRef
  /\ Result(1).audioParts = [k \in 1..3 |-> <<stops[1].timestamp, <<0, 0, k>> >>]
  /\ Range(Result(1).audioParts) \subseteq recordingsDir
  /\ chunksDir = {}

\* C27: a returned duration is the number of ticks of the elapsed-time ticker since
\* the session's start and before the stop call; the elapsed time is 0 when a start
\* has reset the session and when it completes, only that reset lowers it, each tick
\* adds exactly 1 to it, and one ticker runs while recording un-paused with no stop
\* requested, none otherwise.
C27_DurationCountsTicks ==
  [][/\ \A i \in 1..Len(stops') :
          stops'[i].pc = "done" =>
            stops'[i].result.duration = stops'[i].atCall.sess.ticks
     /\ \A i \in 1..Len(stops') :
          i > Len(stops) => stops'[i].currentDuration = sess.ticks
     /\ (startCall.pc # "none" /\ startCall'.pc = "none" /\ isRecording') =>
          duration' = 0
     /\ \/ startCall.pc = "perm" /\ startCall'.pc = "full" /\ duration' = 0
        \/ duration' = duration /\ sess'.ticks = sess.ticks
        \/ /\ duration' = duration + 1 /\ sess'.ticks = sess.ticks + 1
           /\ Phase = "recording"
     /\ intervals'.timer <= 1
     /\ intervals'.timer = 1 => Phase' = "recording"
     /\ (Phase' = "recording" /\ ~isStoppingRef') => intervals'.timer = 1
     /\ duration' = sess'.ticks /\ durationRef' = duration']_vars

\* a session that ticked once before it was paused and stopped returned duration 1
C27_Witness ==
  /\ Len(stops) = 1 /\ Done(1)
  /\ stops[1].atCall.sess.paused
  /\ stops[1].atCall.sess.ticks = 1
  /\ Result(1).duration = 1
  /\ duration = 1

\* C28: when a startRecording call completes without throwing, the scratch area and
\* the closed-chunk list are empty, the transcript and the shown transcript are
\* empty, the elapsed time is 0 and the stopping flag is clear; and text is only
\* ever added to the transcript for a chunk closed since the last start.
C28_StartsClean ==
  [][/\ (startCall.pc = "chunk" /\ startCall'.pc = "none" /\ startCall'.error = "none") =>
          /\ chunksDir' = {} /\ chunkFilesRef' = <<>>
          /\ transcriptionRef' = <<>> /\ liveTranscription' = <<>>
          /\ duration' = 0 /\ ~isStoppingRef'
     /\ transcriptionRef' # transcriptionRef =>
          \/ transcriptionRef' = <<>>
          \/ \E t \in transcribed' : t.ok /\ t.chunk \in Range(chunkFilesRef')]_vars

NonEmpty(x) == x # Empty

\* C29: once handleDiarize has ended without an error the row's dialogue is the
\* payload tagged diarized with the diarized segments and the plain text, and its
\* transcription is the one the recording had, or, when it had none, the non-empty
\* plain texts of the parts joined by spaces; at no point of a diarization does a
\* transcription the recording had change.
C29_BackfillOnlyWhenMissing ==
  LET plainText == JoinStrings(SelectSeq(diar.plains, NonEmpty))
  IN  /\ (diar.pc = "done" /\ diar.error = "none") =>
            /\ row.dialogue = Some(Stringify(DiarizedResult(diar.diarized,
                                                             SelectSeq(diar.plains, NonEmpty))))
            /\ isDiarizedTranscription(FALSE, row.dialogue.str) # JNull
            /\ Get(JSONParse(row.dialogue.str).val, "plainText") = JStr(plainText)
            /\ row.transcription = IF Falsy(diar.recording.transcription)
                                   THEN Some(plainText)
                                   ELSE diar.recording.transcription
      /\ (diar.pc # "idle" /\ ~Falsy(diar.recording.transcription)) =>
            row.transcription = diar.recording.transcription
      /\ (diar.pc # "idle" /\ row.transcription # diar.recording.transcription) =>
            diar.pc = "done" /\ diar.error = "none"

\* three parts, the second with no plain text, diarized for a recording without a
\* transcription
C29_Witness ==
  /\ diar.pc = "done" /\ diar.error = "none"
  /\ diar.recording.transcription = NullStr
  /\ diar.plains = <<Str("a"), Empty, Str("c")>>
  /\ row.transcription = Some(Str("a") \o <<WS>> \o Str("c"))

\* a diarization of a recording that had a transcription
C29_WitnessKept ==
  /\ diar.pc = "done" /\ diar.error = "none"
  /\ diar.recording.transcription = Some(Str("texto"))
  /\ Len(diar.plains) = 2
  /\ row.transcription = Some(Str("texto"))
  /\ row.dialogue # diar.recording.dialogue

\* C30: what a diarization has sent to a backend as the user prompt is the
\* diarization instruction text followed by one line [MM:SS - MM:SS] "text" for
\* each segment handed in, in their order, joined by newlines.
C30_PromptIsInstructionThenLines ==
  (diar.asked /\ Dispatch("diarizeTranscription", diar.provider) # NoBackend) =>
    diar.sent = DIARIZATION_PROMPT
                  \o JoinLines([k \in 1..Len(diar.allSegments) |->
                                  FormatSegment(diar.allSegments[k])])

\* the array a parsed diarization response holds: the value itself, or its segments
SegmentArray(v) ==
  IF v.t = "arr" THEN v
  ELSE IF v.t = "obj" /\ Get(v, "segments").t = "arr" THEN Get(v, "segments")
  ELSE JNull

\* a field of an element: copied when present and not empty, else the default
Coerced(seg, key, default) ==
  IF Get(seg, key).t \in {"null"} \/ Get(seg, key) = JStr(Empty)
  THEN JStr(default) ELSE Get(seg, key)

\* C31: when the response a backend gave parses, once stripped, to an array or to
\* an object with a segments array, diarizeTranscription returns one segment per
\* element, in order, each field copied or replaced by its default.
C31_ElementsCoerced ==
  (/\ call.done /\ call.op = "diarizeTranscription"
   /\ call.backend # NoBackend /\ call.raw.kind = "body"
   /\ JSONParse(Cleaned(call.raw.body)).ok
   /\ SegmentArray(JSONParse(Cleaned(call.raw.body)).val) # JNull)
    => LET arr == SegmentArray(JSONParse(Cleaned(call.raw.body)).val).items
       IN  /\ call.out.ok
           /\ Len(call.out.segments) = Len(arr)
           /\ \A i \in 1..Len(arr) :
                call.out.segments[i] =
                  [speaker |-> Coerced(arr[i], "speaker", Str("Desconhecido")),
                   start |-> Coerced(arr[i], "start", Str("00:00")),
                   end |-> Coerced(arr[i], "end", Str("00:00")),
                   text |-> Coerced(arr[i], "text", Empty)]

\* the part list a recording of n parts was created with
CreatedWith(n) == [k \in 1..n |-> Uri(k)]

\* C32: the parts handleDiarize reads from its recording through getAudioParts are
\* the list the recording was created with, in order, when that list was not
\* empty; they are the file_path alone when it was created with no part or stores
\* an audio_parts that does not parse.
C32_PartsReadBack ==
  (diar.pc # "idle" /\ diar.error # "nokey") =>
    /\ \A n \in 0..MaxParts :
         diar.recording.audio_parts = PartsJson(CreatedWith(n)) =>
           diar.parts = IF n > 0 THEN CreatedWith(n) ELSE <<diar.recording.file_path>>
    /\ (~diar.recording.audio_parts.isNull
        /\ ~JSONParse(diar.recording.audio_parts.str).ok) =>
           diar.parts = <<diar.recording.file_path>>

\* a recording created with three parts was read back
C32_Witness ==
  /\ diar.pc = "part"
  /\ diar.recording = RowOf(3, NullStr, NullStr)
  /\ diar.parts = <<Uri(1), Uri(2), Uri(3)>>

\* a recording whose audio_parts does not parse was read back
C32_WitnessCorrupt ==
  /\ diar.pc = "part"
  /\ diar.recording \in CorruptRows
  /\ diar.parts = <<FullUri>>

\* C33: when the delete of one of a recording's files threw, the deletion of every
\* other file the recording names has still been attempted by the time the row is
\* removed, and the row is removed.
C33_ErrorDoesNotAbortDelete ==
  /\ (del.pc \in {"db", "done"} /\ del.threw) =>
        del.attempted = Referenced(del.recording)
  /\ del.pc = "done" => ~row.exists

\* C34: when a startRecording call ends with an error (permission refused, or the
\* chunk stream could not be opened) no stream of either role is open: a full
\* stream the call opened is not left recording.
C34_FailedStartLeavesNoStream ==
  [][(startCall.pc # "none" /\ startCall'.pc = "none" /\ startCall'.error # "none")
       => (Open("full")' = {} /\ Open("chunk")' = {})]_vars

\* C35: at most one elapsed-time interval and at most one rotation interval is
\* armed, and an armed interval is the one timerRef, respectively chunkTimerRef,
\* holds.
C35_OneTickerEach ==
  /\ intervals.timer <= 1
  /\ intervals.live + intervals.stale <= 1
  /\ intervals.timer = 1 => timerRef # NULL
  /\ intervals.live = 1 => chunkTimerRef = "live"
  /\ intervals.stale = 1 => chunkTimerRef = "stale"

\* C36: while the session is paused no stream of either role is recording.
C36_NothingRecordsWhilePaused ==
  Phase = "paused" => \A r \in 1..Len(recorders) : recorders[r].st # "recording"

\* C37: while the session is idle and no start is in progress, no interval is armed
\* and both stream handles are null.
C37_IdleHoldsNothing ==
  (Phase = "idle" /\ startCall.pc = "none") =>
    /\ intervals.timer = 0 /\ intervals.live = 0 /\ intervals.stale = 0
    /\ timerRef = NULL /\ chunkTimerRef = "null"
    /\ recorderRef = NULL /\ fullRecorderRef = NULL

\* C38: every stopRecording call returns a result in the end, and isRecording is
\* false when it does.
C38_StopReturns ==
  \A i \in 1..MaxCalls :
    (Len(stops) >= i) ~> (Len(stops) >= i /\ Done(i) /\ ~isRecording)

\* C39: a background chunk transcription that settles changes the transcript only
\* when its chunk is in the closed-chunk list of the current session, the list the
\* last startRecording emptied.
C39_TranscriptOfThisSession ==
  [][\A c \in pending \ pending' :
       (transcriptionRef' # transcriptionRef \/ liveTranscription' # liveTranscription)
         => c \in Range(chunkFilesRef)]_vars

\* the number of merged segments that come from the parts before part k
RECURSIVE MergedBefore(_, _)
MergedBefore(results, k) ==
  IF k <= 1 THEN 0 ELSE MergedBefore(results, k - 1) + Len(results[k - 1])

\* C40: in the merged list every segment of a later part starts at or after the
\* end of the last segment of every earlier part, and no round of the loop lowers
\* the running offset (the parts' segments are non-negative and in time order).
C40_MergedOrderedAcrossParts ==
  [][/\ diar'.timeOffset >= diar.timeOffset
     /\ Len(diar'.allSegments) = MergedBefore(diar'.results, Len(diar'.results) + 1)
     /\ \A j, k \in 1..Len(diar'.results) :
          (j < k /\ diar'.results[j] # <<>>) =>
            \A n \in 1..Len(diar'.results[k]) :
              diar'.allSegments[MergedBefore(diar'.results, k) + n].start
                >= diar'.allSegments[MergedBefore(diar'.results, j + 1)].end]_vars

\* three parts merged, the second with a last segment that ends at 0
C40_Witness ==
  /\ diar.pc = "llm"
  /\ diar.results = <<<<TSeg(0, 5, Str("a"))>>, <<TSeg(0, 0, Str("z"))>>,
                      <<TSeg(0, 3, Str("c"))>>>>
  /\ diar.allSegments = <<TSeg(0, 5, Str("a")), TSeg(5, 5, Str("z")),
                          TSeg(10, 13, Str("c"))>>
  /\ diar.timeOffset = 13

====
